---- MODULE Spec2Model ----
(***************************************************************************)
(* Model of the conversational-memory subsystem of MCP-files-teams:        *)
(* ChromaMemoryManager (src/src/memory-extension.ts), the process-wide     *)
(* RequestContext (src/src/lib/request-context.ts) and the memory tool     *)
(* handlers (src/src/memory-tools.ts).                                     *)
(*                                                                         *)
(* Program strings are sequences of one-character strings, so that         *)
(* concatenation, length, substring search, lower-casing, sanitising and   *)
(* path splitting are computed as the code computes them.                  *)
(*                                                                         *)
(* Fault model (the faults the code has handlers for): fs.mkdir and        *)
(* fs.writeFile may fail (a failed write leaves the file as it was), a     *)
(* session file may be missing, unparsable or parse to a non-array, the    *)
(* vector client or collection may be unobtainable, collection.add may     *)
(* throw, collection.query may throw or answer with a malformed body.      *)
(***************************************************************************)
EXTENDS Integers, Sequences, FiniteSets, TLC

VARIABLES
    ctx,      \* RequestContext: [user, team], the module-level cells
    env,      \* process.env, fixed for the lifetime of the process
    mgr,      \* ChromaMemoryManager fields: [client, collection, initialized]
    fs,       \* the disk under memoryDir: [files], path -> contents
    index,    \* the vector collection: the add() calls it accepted, in order
    lastOp,   \* the most recent call: [op, args, ret, events, queries, path, resp]
    used,     \* how much of the bounds the run has used: [stores, reloads, faults]
    chroma,   \* ChromaRest fields: [tenant, database]
    backend,  \* the Chroma server: [tenants, databases, collections]
    boot,     \* the REST server's startup: [pc, elapsed, beats, last, failed]
    inflight  \* requests in progress, each between two of its awaits

vars == <<ctx, env, mgr, fs, index, used, chroma, backend, boot, inflight, lastOp>>

----------------------------------------------------------------------------
(* Bounds of the model *)

MaxStores == 2     \* storeConversation calls in a run
MaxReloads == 1    \* reloadAllMemoriesFromJson calls in a run
MaxFaults == 1     \* failing disk writes and failing collection.add calls in a run
MaxRepeats == 1    \* further reloadAllMemoriesFromJson calls right after one

----------------------------------------------------------------------------
(* JavaScript values *)

Null == <<"#null">>
Undefined == <<"#undefined">>

\* JavaScript truthiness of a string-or-null value, as used by `a || b`
Falsy(v) == v = Null \/ v = Undefined \/ v = <<>>
Or(a, b) == IF Falsy(a) THEN b ELSE a

Min(a, b) == IF a < b THEN a ELSE b
Max(a, b) == IF a > b THEN a ELSE b

RECURSIVE Concat(_)
Concat(ss) == IF ss = <<>> THEN <<>> ELSE Head(ss) \o Concat(Tail(ss))

\* Array.prototype.join
RECURSIVE Join(_, _)
Join(ss, sep) ==
    IF ss = <<>> THEN <<>>
    ELSE IF Len(ss) = 1 THEN ss[1]
    ELSE ss[1] \o sep \o Join(Tail(ss), sep)

\* String.prototype.includes
Includes(s, q) ==
    \E i \in 0..(Len(s) - Len(q)) : SubSeq(s, i + 1, i + Len(q)) = q

\* String.prototype.endsWith
EndsWith(s, suf) ==
    Len(s) >= Len(suf) /\ SubSeq(s, Len(s) - Len(suf) + 1, Len(s)) = suf

\* Array.prototype.slice(0, n): a negative n counts from the end
Slice0(s, n) ==
    LET e == IF n < 0 THEN Max(Len(s) + n, 0) ELSE Min(n, Len(s))
    IN  SubSeq(s, 1, e)

UpperCase == <<"A","B","C","D","E","F","G","H","I","J","K","L","M",
               "N","O","P","Q","R","S","T","U","V","W","X","Y","Z">>
LowerCase == <<"a","b","c","d","e","f","g","h","i","j","k","l","m",
               "n","o","p","q","r","s","t","u","v","w","x","y","z">>
Digits == {"0","1","2","3","4","5","6","7","8","9"}

LowerChar(c) ==
    IF \E i \in 1..26 : UpperCase[i] = c
    THEN LowerCase[CHOOSE i \in 1..26 : UpperCase[i] = c]
    ELSE c

\* String.prototype.toLowerCase
ToLowerCase(s) == [i \in 1..Len(s) |-> LowerChar(s[i])]

\* userId.replace(/[^a-zA-Z0-9._-]/g, '_')
SafeChar(c) ==
    \/ \E i \in 1..26 : UpperCase[i] = c \/ LowerCase[i] = c
    \/ c \in Digits
    \/ c \in {".", "_", "-"}
Sanitize(s) == [i \in 1..Len(s) |-> IF SafeChar(s[i]) THEN s[i] ELSE "_"]

----------------------------------------------------------------------------
(* Paths.  A path is the sequence of its segments below memoryDir; a       *)
(* leading ".." segment is a step above memoryDir.                         *)

RECURSIVE SplitPath(_, _)
SplitPath(s, cur) ==
    IF s = <<>> THEN <<cur>>
    ELSE IF Head(s) = "/" THEN <<cur>> \o SplitPath(Tail(s), <<>>)
    ELSE SplitPath(Tail(s), Append(cur, Head(s)))

RECURSIVE Normalize(_, _)
Normalize(segs, acc) ==
    IF segs = <<>> THEN acc
    ELSE LET h == Head(segs) IN
         IF h = <<>> \/ h = <<".">> THEN Normalize(Tail(segs), acc)
         ELSE IF h = <<".", ".">> /\ acc # <<>> /\ acc[Len(acc)] # <<".", ".">>
              THEN Normalize(Tail(segs), SubSeq(acc, 1, Len(acc) - 1))
         ELSE Normalize(Tail(segs), Append(acc, h))

\* path.join(base, name)
PathJoin(base, name) == Normalize(base \o SplitPath(name, <<>>), <<>>)

memoryDir == <<>>
JsonExt == <<".", "j", "s", "o", "n">>

----------------------------------------------------------------------------
(* JSON.  JSON.stringify drops the properties whose value is undefined;    *)
(* JSON.parse gives back the remaining ones, and reading a dropped         *)
(* property gives undefined again.                                         *)

MemoryFields == {"sessionId", "timestamp", "userMessage", "assistantResponse",
                 "context", "tags", "source", "userId", "teamId", "visibility",
                 "projectId", "domain"}

\* properties that are never undefined: a number and the two arrays
AlwaysDefined == {"timestamp", "context", "tags"}

JsonObject(obj) ==
    LET keep == {k \in DOMAIN obj : k \in AlwaysDefined \/ obj[k] # Undefined}
    IN  [k \in keep |-> obj[k]]

Field(obj, k) == IF k \in DOMAIN obj THEN obj[k] ELSE Undefined

\* null where an object is expected; reading a property of it throws
NullObject == [null |-> TRUE]
IsNull(obj) == "null" \in DOMAIN obj

\* what a reader of the parsed object sees, property by property
Revive(obj) == [k \in MemoryFields |-> Field(obj, k)]

\* file contents: a JSON array of objects, unparsable text, or JSON that
\* is no array
ArrayFile(recs) == [kind |-> "array", recs |-> recs]
CorruptFile == [kind |-> "corrupt", recs |-> <<>>]
NonArrayFile == [kind |-> "nonarray", recs |-> <<>>]

----------------------------------------------------------------------------
(* RequestContext *)

\* set keeping what it is given, without the `|| null`
RequestContext_set_asGiven(userId, teamId) == [user |-> userId, team |-> teamId]

RequestContext_set(userId, teamId) ==
    [user |-> Or(userId, Null), team |-> Or(teamId, Null)]

RequestContext_userId(c) == c.user
RequestContext_teamId(c) == c.team

RequestContext_clear == [user |-> Null, team |-> Null]

----------------------------------------------------------------------------
(* String literals of the program *)

STR_undefined == <<"u", "n", "d", "e", "f", "i", "n", "e", "d">>
STR_null == <<"n", "u", "l", "l">>
STR_unknown_user == <<"u", "n", "k", "n", "o", "w", "n", "-", "u", "s", "e", "r">>
STR_default_team == <<"d", "e", "f", "a", "u", "l", "t", "-", "t", "e", "a", "m">>
STR_team == <<"t", "e", "a", "m">>
STR_private == <<"p", "r", "i", "v", "a", "t", "e">>
STR_public == <<"p", "u", "b", "l", "i", "c">>
STR_true == <<"t", "r", "u", "e">>
STR_1 == <<"1">>
STR_User == <<"U", "s", "e", "r", ":", " ">>
STR_Assistant == <<"\n", "A", "s", "s", "i", "s", "t", "a", "n", "t", ":", " ">>
STR_CommaSpace == <<",", " ">>

\* template-literal interpolation `${v}` of a string-or-undefined value
Str(v) == IF v = Undefined THEN STR_undefined
          ELSE IF v = Null THEN STR_null ELSE v

DigitChars == <<"0","1","2","3","4","5","6","7","8","9">>

\* `${n}` of a non-negative integer
RECURSIVE NumStr(_)
NumStr(n) == IF n < 10 THEN <<DigitChars[n + 1]>>
             ELSE NumStr(n \div 10) \o <<DigitChars[(n % 10) + 1]>>

----------------------------------------------------------------------------
(* ChromaMemoryManager *)

\* how the vector service answers during initialize()
InitOutcomes == {"existing", "created", "unreachable", "mkdir_fails"}

\* initialize not remembering a failure to reach the collection: the client
\* is kept and the next call tries again
initialize_retries(m, outcome) ==
    IF m.initialized THEN m
    ELSE IF outcome = "mkdir_fails"
         THEN [client |-> FALSE, collection |-> FALSE, initialized |-> TRUE]
    ELSE IF m.client
         THEN IF outcome \in {"existing", "created"}
              THEN [client |-> TRUE, collection |-> TRUE, initialized |-> TRUE]
              ELSE [client |-> TRUE, collection |-> FALSE, initialized |-> FALSE]
    ELSE [m EXCEPT !.initialized = TRUE]

initialize(m, outcome) ==
    IF m.initialized THEN m
    ELSE IF outcome = "mkdir_fails"
         THEN [client |-> FALSE, collection |-> FALSE, initialized |-> TRUE]
    ELSE IF m.client
         THEN IF outcome \in {"existing", "created"}
              THEN [client |-> TRUE, collection |-> TRUE, initialized |-> TRUE]
              ELSE [client |-> FALSE, collection |-> FALSE, initialized |-> TRUE]
    ELSE [m EXCEPT !.initialized = TRUE]

isAvailable(m) == m.initialized /\ m.client /\ m.collection

\* Directories are not stored: a directory is there when a file lies below
\* it (no operation tells an empty directory from a missing one: readdir
\* and access failures are caught and read as "no files").
DirExists(f, d) ==
    \/ d = memoryDir
    \/ \A i \in 1..Len(d) : d[i] = <<".", ".">>
    \/ \E p \in DOMAIN f.files : Len(p) > Len(d) /\ SubSeq(p, 1, Len(d)) = d

Parent(p) == SubSeq(p, 1, Len(p) - 1)

\* the directory storeConversationToJson writes into
\* StoreUserDir passing over the userId of the record it is given
StoreUserDir_ignoresRecord(c, e, memory) ==
    LET rcUser == c.user
        userSafe == Sanitize(Or(Or(rcUser, e.MCP_USER_ID), STR_unknown_user))
    IN  PathJoin(memoryDir, userSafe)

StoreUserDir(c, e, memory) ==
    LET rcUser == c.user
        userSafe == Sanitize(Or(Or(Or(memory.userId, rcUser), e.MCP_USER_ID),
                                STR_unknown_user))
    IN  PathJoin(memoryDir, userSafe)

StoreSessionFile(c, e, memory) ==
    PathJoin(StoreUserDir(c, e, memory), Str(memory.sessionId) \o JsonExt)

\* storeConversationToJson forgetting what it read: the file is rewritten
\* with the new record alone
storeConversationToJson_overwrite(f, c, e, memory, io) ==
    LET sessionFile == StoreSessionFile(c, e, memory)
        written == [p \in (DOMAIN f.files) \cup {sessionFile} |->
                       IF p = sessionFile THEN ArrayFile(<<JsonObject(memory)>>)
                       ELSE f.files[p]]
    IN  IF ~io.mkdir \/ ~io.write THEN [fs |-> f, ret |-> FALSE]
        ELSE [fs |-> [f EXCEPT !.files = written], ret |-> TRUE]

\* storeConversationToJson putting the new record in front of the old ones
storeConversationToJson_prepends(f, c, e, memory, io) ==
    LET userDir == StoreUserDir(c, e, memory)
        sessionFile == StoreSessionFile(c, e, memory)
        present == sessionFile \in DOMAIN f.files
        old == IF present THEN f.files[sessionFile] ELSE CorruptFile
        existingData == IF present /\ old.kind = "array" THEN old.recs ELSE <<>>
        pushed == <<JsonObject(memory)>> \o existingData
        written == [p \in (DOMAIN f.files) \cup {sessionFile} |->
                       IF p = sessionFile THEN ArrayFile(pushed) ELSE f.files[p]]
    IN  IF ~io.mkdir THEN [fs |-> f, ret |-> FALSE]
        ELSE IF present /\ old.kind = "nonarray" THEN [fs |-> f, ret |-> FALSE]
        ELSE IF ~io.write
                \/ ~(Parent(sessionFile) = userDir \/ DirExists(f, Parent(sessionFile)))
             THEN [fs |-> f, ret |-> FALSE]
        ELSE [fs |-> [f EXCEPT !.files = written], ret |-> TRUE]

\* io.mkdir, io.write: whether fs.mkdir / fs.writeFile succeed
storeConversationToJson(f, c, e, memory, io) ==
    LET userDir == StoreUserDir(c, e, memory)
        sessionFile == StoreSessionFile(c, e, memory)
        present == sessionFile \in DOMAIN f.files
        old == IF present THEN f.files[sessionFile] ELSE CorruptFile
        existingData == IF present /\ old.kind = "array" THEN old.recs ELSE <<>>
        pushed == Append(existingData, JsonObject(memory))
        written == [p \in (DOMAIN f.files) \cup {sessionFile} |->
                       IF p = sessionFile THEN ArrayFile(pushed) ELSE f.files[p]]
    IN  IF ~io.mkdir THEN [fs |-> f, ret |-> FALSE]
        ELSE IF present /\ old.kind = "nonarray" THEN [fs |-> f, ret |-> FALSE]
        ELSE IF ~io.write
                \/ ~(Parent(sessionFile) = userDir \/ DirExists(f, Parent(sessionFile)))
             THEN [fs |-> f, ret |-> FALSE]
        ELSE [fs |-> [f EXCEPT !.files = written], ret |-> TRUE]

Document(memory) ==
    STR_User \o Str(memory.userMessage) \o STR_Assistant \o Str(memory.assistantResponse)

\* RecordId telling the records of one millisecond apart by their message
RecordId_perMessage(memory) ==
    Str(memory.sessionId) \o <<"_">> \o NumStr(memory.timestamp)
        \o <<"_">> \o Str(memory.userMessage)

RecordId(memory) == Str(memory.sessionId) \o <<"_">> \o NumStr(memory.timestamp)

disableJson(e) ==
    \/ ToLowerCase(Or(e.MCP_DISABLE_JSON, <<>>)) = STR_true
    \/ e.MCP_DISABLE_JSON = STR_1

jsonOnlyPrivate(e) == Or(e.MCP_PRIVATE_JSON_ONLY, STR_1) = STR_1

\* the argument of collection.add in storeConversation.  `origin` is not
\* sent: it remembers whose record the entry holds and how visible it is
StoreAddCall(e, memory, userId, teamId, visibility) ==
    [origin |-> [userId |-> userId, visibility |-> visibility],
     id |-> RecordId(memory),
     document |-> Document(memory),
     metadata |-> JsonObject(
        [sessionId |-> memory.sessionId,
         timestamp |-> memory.timestamp,
         userMessage |-> memory.userMessage,
         assistantResponse |-> memory.assistantResponse,
         context |-> Join(memory.context, STR_CommaSpace),
         tags |-> Join(memory.tags, STR_CommaSpace),
         userId |-> userId,
         teamId |-> teamId,
         visibility |-> visibility,
         projectId |-> Or(Or(memory.projectId, e.MCP_PROJECT_ID), Undefined),
         domain |-> Or(memory.domain, Undefined)])]

Event(name, ok) == [e |-> name, ok |-> ok]

\* storeConversation letting a failed collection.add reach the caller as a
\* false result
storeConversation_surfaces(m, f, ix, c, e, memory, io) ==
    LET m1 == initialize(m, io.init)
        userId == Or(Or(Or(c.user, e.MCP_USER_ID), memory.userId), STR_unknown_user)
        teamId == Or(Or(Or(c.team, e.MCP_TEAM_ID), memory.teamId), STR_default_team)
        visibility == Or(memory.visibility, STR_team)
        enriched == [memory EXCEPT !.userId = userId, !.teamId = teamId,
                                   !.visibility = visibility]
        json == IF disableJson(e) THEN [fs |-> f, ret |-> TRUE]
                ELSE storeConversationToJson(f, c, e, enriched, io)
        ev1 == IF disableJson(e) THEN <<>> ELSE <<Event("json", json.ret)>>
        out(ix2, ev, ok) == [mgr |-> m1, fs |-> json.fs, index |-> ix2,
                             ret |-> [kind |-> "value", val |-> ok],
                             events |-> ev]
    IN  IF visibility = STR_private /\ jsonOnlyPrivate(e) THEN out(ix, ev1, TRUE)
        ELSE IF ~m1.client \/ ~m1.collection THEN out(ix, ev1, TRUE)
        ELSE IF io.add
             THEN out(Append(ix, StoreAddCall(e, memory, userId, teamId, visibility)),
                      Append(ev1, Event("add", TRUE)), TRUE)
        ELSE out(ix, Append(ev1, Event("add", FALSE)), FALSE)

\* io.init: outcome of a first initialize(); io.mkdir, io.write: the disk;
\* io.add: whether collection.add resolves
storeConversation(m, f, ix, c, e, memory, io) ==
    LET m1 == initialize(m, io.init)
        rcUser == c.user
        rcTeam == c.team
        userId == Or(Or(Or(rcUser, e.MCP_USER_ID), memory.userId), STR_unknown_user)
        teamId == Or(Or(Or(rcTeam, e.MCP_TEAM_ID), memory.teamId), STR_default_team)
        visibility == Or(memory.visibility, STR_team)
        enriched == [memory EXCEPT !.userId = userId, !.teamId = teamId,
                                   !.visibility = visibility]
        json == IF disableJson(e) THEN [fs |-> f, ret |-> TRUE]
                ELSE storeConversationToJson(f, c, e, enriched, io)
        ev1 == IF disableJson(e) THEN <<>> ELSE <<Event("json", json.ret)>>
        out(ix2, ev) == [mgr |-> m1, fs |-> json.fs, index |-> ix2,
                         ret |-> [kind |-> "value", val |-> TRUE],
                         events |-> ev]
    IN  IF visibility = STR_private /\ jsonOnlyPrivate(e) THEN out(ix, ev1)
        ELSE IF ~m1.client \/ ~m1.collection THEN out(ix, ev1)
        ELSE IF io.add
             THEN out(Append(ix, StoreAddCall(e, memory, userId, teamId, visibility)),
                      Append(ev1, Event("add", TRUE)))
        ELSE out(ix, Append(ev1, Event("add", FALSE)))

----------------------------------------------------------------------------
(* The vector service, as seen through collection.query: it answers with   *)
(* the entries whose metadata satisfies the `where` filter, nearest first, *)
(* at most nResults of them; or the call throws; or the body lacks the     *)
(* metadatas array.                                                        *)

Matches(meta, where) ==
    /\ "sessionId" \in DOMAIN where => Field(meta, "sessionId") = where.sessionId
    /\ "teamId" \in DOMAIN where => Field(meta, "teamId") = where.teamId
    /\ "visibility" \in DOMAIN where => Field(meta, "visibility") \in where.visibility

Injective(s) == \A i, j \in DOMAIN s : s[i] = s[j] => i = j

Perms(S) == {s \in [1..Cardinality(S) -> S] : Injective(s)}

Rankings(S, k) == {s \in [1..k -> S] : Injective(s)}

QueryResponses(ix, where, nResults) ==
    LET hits == {i \in 1..Len(ix) : Matches(ix[i].metadata, where)}
        k == Min(Max(nResults, 0), Cardinality(hits))
        body(r) == [kind |-> "ok",
                    documents |-> [i \in 1..k |-> ix[r[i]].document],
                    metadatas |-> [i \in 1..k |-> ix[r[i]].metadata],
                    distances |-> [i \in 1..k |-> i]]
    IN  {[kind |-> "throw", documents |-> <<>>, metadatas |-> <<>>, distances |-> <<>>]}
        \cup (IF nResults < 1 THEN {} ELSE {body(r) : r \in Rankings(hits, k)})
        \cup (IF nResults < 1 \/ k = 0 THEN {}
              ELSE {[body(r) EXCEPT !.kind = "no_metadatas", !.metadatas = <<>>] :
                        r \in Rankings(hits, k)})

----------------------------------------------------------------------------
(* Directory listings.  fs.readdir gives the names in an order the         *)
(* program does not control: a listing is any enumeration of the entries.  *)

Entries(f, d) ==
    {p[Len(d) + 1] : p \in {q \in DOMAIN f.files :
                                Len(q) > Len(d) /\ SubSeq(q, 1, Len(d)) = d}}

Listings(f, d) == Perms(Entries(f, d))

IsFile(f, p) == p \in DOMAIN f.files

----------------------------------------------------------------------------
(* Search *)

DefaultLimit == 5
PromptLimit == 3
DefaultMaxLength == 2000

\* distances are in tenths: 5 is the 0.5 of the keyword fallback
DummyDistance == 5

\* a numeric argument is {} when omitted and {n} when given
Given(arg, default) == IF arg = {} THEN default ELSE CHOOSE n \in arg : TRUE

\* SearchText comparing the record's text as stored, without lower-casing it
SearchText_caseSensitive(memory) ==
    Str(Field(memory, "userMessage")) \o <<" ">>
    \o Str(Field(memory, "assistantResponse")) \o <<" ">>
    \o Join(memory.tags, <<" ">>)

SearchText(memory) ==
    ToLowerCase(Str(Field(memory, "userMessage")) \o <<" ">>
                \o Str(Field(memory, "assistantResponse")) \o <<" ">>
                \o Join(memory.tags, <<" ">>))

JsonResult(memory) ==
    [content |-> Document(Revive(memory)),
     metadata |-> [sessionId |-> Field(memory, "sessionId"),
                   timestamp |-> memory.timestamp,
                   tags |-> memory.tags,
                   context |-> memory.context],
     distance |-> DummyDistance]

\* the matches of one parsed session file, in array order
RECURSIVE FileMatches(_, _)
FileMatches(memories, queryLower) ==
    IF memories = <<>> THEN <<>>
    ELSE (IF Includes(SearchText(Head(memories)), queryLower)
          THEN <<JsonResult(Head(memories))>> ELSE <<>>)
         \o FileMatches(Tail(memories), queryLower)

\* the directory searchJsonMemories and listSessions read
ActiveUserDir(c, e) ==
    LET userId == Or(Or(c.user, e.MCP_USER_ID), STR_unknown_user)
    IN  PathJoin(memoryDir, userId)

RECURSIVE ScanFiles(_, _, _, _)
ScanFiles(f, userDir, files, queryLower) ==
    IF files = <<>> THEN <<>>
    ELSE LET file == Head(files)
             filePath == PathJoin(userDir, file)
             here == IF ~EndsWith(file, JsonExt) THEN <<>>
                     ELSE IF ~IsFile(f, filePath) THEN <<>>
                     ELSE IF f.files[filePath].kind # "array" THEN <<>>
                     ELSE FileMatches(f.files[filePath].recs, queryLower)
         IN  here \o ScanFiles(f, userDir, Tail(files), queryLower)

\* listing: the answer of fs.readdir(userDir), used when no sessionId is given
searchJsonMemories(f, c, e, query, sessionId, limit, listing) ==
    LET userDir == ActiveUserDir(c, e)
        files == IF ~Falsy(sessionId) THEN <<sessionId \o JsonExt>> ELSE listing
    IN  IF query = Undefined \/ query = Null THEN <<>>
        ELSE IF ~DirExists(f, userDir) THEN <<>>
        ELSE Slice0(ScanFiles(f, userDir, files, ToLowerCase(query)),
                    Given(limit, DefaultLimit))

VisibleInSearch == {STR_team, STR_public}

\* SearchWhere leaving visibility out of the filter
SearchWhere_unfiltered(c, e, sessionId) ==
    LET teamId == e.MCP_TEAM_ID
        keys == (IF ~Falsy(sessionId) THEN {"sessionId"} ELSE {})
                \cup (IF ~Falsy(teamId) THEN {"teamId"} ELSE {})
    IN  [k \in keys |-> IF k = "sessionId" THEN sessionId ELSE teamId]

\* the `where` filter searchRelevantMemories sends
SearchWhere(c, e, sessionId) ==
    LET teamId == e.MCP_TEAM_ID
        keys == {"visibility"}
                \cup (IF ~Falsy(sessionId) THEN {"sessionId"} ELSE {})
                \cup (IF ~Falsy(teamId) THEN {"teamId"} ELSE {})
    IN  [k \in keys |-> IF k = "visibility" THEN VisibleInSearch
                        ELSE IF k = "sessionId" THEN sessionId ELSE teamId]

\* searchRelevantMemories without the try around the query: a throwing
\* collection.query reaches the caller
searchRelevantMemories_raises(m, f, c, e, query, sessionId, limit, resp, listing) ==
    LET where == SearchWhere(c, e, sessionId)
        fallback(ev, qs) ==
            [ret |-> [kind |-> "value",
                      val |-> searchJsonMemories(f, c, e, query, sessionId, limit, listing)],
             events |-> Append(ev, Event("scan", TRUE)),
             queries |-> qs,
             path |-> "json",
             resp |-> resp]
    IN  IF m.collection /\ m.client
        THEN IF resp.kind = "throw"
             THEN [ret |-> [kind |-> "throw", val |-> <<>>],
                   events |-> <<Event("query", FALSE)>>,
                   queries |-> <<where>>, path |-> "vector", resp |-> resp]
             ELSE IF Len(resp.documents) > 0
                  THEN IF resp.kind = "no_metadatas"
                       THEN fallback(<<Event("query", TRUE)>>, <<where>>)
                       ELSE [ret |-> [kind |-> "value",
                                      val |-> [i \in 1..Len(resp.documents) |->
                                                 [content |-> resp.documents[i],
                                                  metadata |-> resp.metadatas[i],
                                                  distance |-> resp.distances[i]]]],
                             events |-> <<Event("query", TRUE)>>,
                             queries |-> <<where>>,
                             path |-> "vector",
                             resp |-> resp]
             ELSE fallback(<<Event("query", TRUE)>>, <<where>>)
        ELSE fallback(<<>>, <<>>)

\* searchRelevantMemories taking an empty answer of the query as its result
searchRelevantMemories_keepsEmpty(m, f, c, e, query, sessionId, limit, resp, listing) ==
    LET where == SearchWhere(c, e, sessionId)
        fallback(ev, qs) ==
            [ret |-> [kind |-> "value",
                      val |-> searchJsonMemories(f, c, e, query, sessionId, limit, listing)],
             events |-> Append(ev, Event("scan", TRUE)),
             queries |-> qs,
             path |-> "json",
             resp |-> resp]
    IN  IF m.collection /\ m.client
        THEN IF resp.kind = "throw"
             THEN fallback(<<Event("query", FALSE)>>, <<where>>)
             ELSE IF Len(resp.documents) >= 0
                  THEN IF resp.kind = "no_metadatas"
                       THEN fallback(<<Event("query", TRUE)>>, <<where>>)
                       ELSE [ret |-> [kind |-> "value",
                                      val |-> [i \in 1..Len(resp.documents) |->
                                                 [content |-> resp.documents[i],
                                                  metadata |-> resp.metadatas[i],
                                                  distance |-> resp.distances[i]]]],
                             events |-> <<Event("query", TRUE)>>,
                             queries |-> <<where>>,
                             path |-> "vector",
                             resp |-> resp]
             ELSE fallback(<<Event("query", TRUE)>>, <<where>>)
        ELSE fallback(<<>>, <<>>)

\* resp: the answer of collection.query; listing: the answer of fs.readdir
searchRelevantMemories(m, f, c, e, query, sessionId, limit, resp, listing) ==
    LET where == SearchWhere(c, e, sessionId)
        fallback(ev, qs) ==
            [ret |-> [kind |-> "value",
                      val |-> searchJsonMemories(f, c, e, query, sessionId, limit, listing)],
             events |-> Append(ev, Event("scan", TRUE)),
             queries |-> qs,
             path |-> "json",
             resp |-> resp]
    IN  IF m.collection /\ m.client
        THEN IF resp.kind = "throw"
             THEN fallback(<<Event("query", FALSE)>>, <<where>>)
             ELSE IF Len(resp.documents) > 0
                  THEN IF resp.kind = "no_metadatas"
                       THEN fallback(<<Event("query", TRUE)>>, <<where>>)
                       ELSE [ret |-> [kind |-> "value",
                                      val |-> [i \in 1..Len(resp.documents) |->
                                                 [content |-> resp.documents[i],
                                                  metadata |-> resp.metadatas[i],
                                                  distance |-> resp.distances[i]]]],
                             events |-> <<Event("query", TRUE)>>,
                             queries |-> <<where>>,
                             path |-> "vector",
                             resp |-> resp]
             ELSE fallback(<<Event("query", TRUE)>>, <<where>>)
        ELSE fallback(<<>>, <<>>)

----------------------------------------------------------------------------
(* Context prompt *)

STR_Heading == <<"#", "#", " ", "R", "e", "l", "e", "v", "a", "n", "t", " ", "C", "o", "n", "t", "e", "x", "t", " ", "f", "r", "o", "m", " ", "P", "r", "e", "v", "i", "o", "u", "s", " ", "C", "o", "n", "v", "e", "r", "s", "a", "t", "i", "o", "n", "s", ":", "\n", "\n">>
STR_BlockOpen == <<"#", "#", "#", " ">>
STR_Session == <<"S", "e", "s", "s", "i", "o", "n">>

\* the loop going on to the next block after one that does not fit
RECURSIVE AppendBlocks_skips(_, _, _)
AppendBlocks_skips(context, memories, maxLength) ==
    IF memories = <<>> THEN context
    ELSE LET memory == Head(memories)
             addition == STR_BlockOpen
                         \o Or(Field(memory.metadata, "sessionId"), STR_Session)
                         \o <<"\n">> \o memory.content \o <<"\n", "\n">>
         IN  IF IsNull(memory.metadata) THEN Null
             ELSE IF Len(context) + Len(addition) > maxLength
             THEN AppendBlocks_skips(context, Tail(memories), maxLength)
             ELSE AppendBlocks_skips(context \o addition, Tail(memories), maxLength)

\* the loop over the results; Null when memory.metadata.sessionId throws
\* because a result has no metadata
RECURSIVE AppendBlocks(_, _, _)
AppendBlocks(context, memories, maxLength) ==
    IF memories = <<>> THEN context
    ELSE LET memory == Head(memories)
             addition == STR_BlockOpen
                         \o Or(Field(memory.metadata, "sessionId"), STR_Session)
                         \o <<"\n">> \o memory.content \o <<"\n", "\n">>
         IN  IF IsNull(memory.metadata) THEN Null
             ELSE IF Len(context) + Len(addition) > maxLength THEN context
             ELSE AppendBlocks(context \o addition, Tail(memories), maxLength)

buildContextPrompt(m, f, c, e, currentMessage, sessionId, maxLength, resp, listing) ==
    LET search == searchRelevantMemories(m, f, c, e, currentMessage, sessionId,
                                         {PromptLimit}, resp, listing)
        relevantMemories == search.ret.val
        context == AppendBlocks(STR_Heading, relevantMemories,
                                Given(maxLength, DefaultMaxLength))
        text == IF Len(relevantMemories) = 0 THEN <<>>
                ELSE IF context = Null THEN <<>>
                ELSE context
    IN  [search EXCEPT !.ret = [kind |-> "value", val |-> text]]

----------------------------------------------------------------------------
(* Session listing *)

\* String.prototype.replace with a string pattern: the first occurrence
RECURSIVE ReplaceFirst(_, _, _)
ReplaceFirst(s, pat, by) ==
    IF Len(s) < Len(pat) THEN s
    ELSE IF SubSeq(s, 1, Len(pat)) = pat
         THEN by \o SubSeq(s, Len(pat) + 1, Len(s))
    ELSE <<Head(s)>> \o ReplaceFirst(Tail(s), pat, by)

\* listing: the answer of fs.readdir(userDir), which throws without the
\* directory
listSessions(f, c, e, listing) ==
    LET userDir == ActiveUserDir(c, e)
        files == SelectSeq(listing, LAMBDA file : EndsWith(file, JsonExt))
    IN  IF ~DirExists(f, userDir) THEN <<>>
        ELSE [i \in 1..Len(files) |-> ReplaceFirst(files[i], JsonExt, <<>>)]

----------------------------------------------------------------------------
(* Session summary *)

\* [...new Set(xs)]: the first occurrences, in order
RECURSIVE Dedupe(_)
Dedupe(xs) ==
    IF xs = <<>> THEN <<>>
    ELSE LET front == Dedupe(SubSeq(xs, 1, Len(xs) - 1))
         IN  IF \E i \in DOMAIN front : front[i] = xs[Len(xs)] THEN front
             ELSE Append(front, xs[Len(xs)])

SummaryLimit == 10
RecentLimit == 3

\* Math.min and Math.max of no numbers
Infinity == <<"#Infinity">>
NegInfinity == <<"#-Infinity">>

\* the summary computed from the parsed session file
JsonSummary(sessionId, memories) ==
    LET stamps == {memories[i].timestamp : i \in DOMAIN memories}
    IN  [kind |-> "json",
         sessionId |-> sessionId,
         conversationCount |-> Len(memories),
         tags |-> Dedupe(Concat([i \in DOMAIN memories |-> memories[i].tags])),
         context |-> Dedupe(Concat([i \in DOMAIN memories |-> memories[i].context])),
         timeRange |->
            [earliest |-> IF stamps = {} THEN Infinity
                          ELSE CHOOSE t \in stamps : \A u \in stamps : t <= u,
             latest |-> IF stamps = {} THEN NegInfinity
                        ELSE CHOOSE t \in stamps : \A u \in stamps : t >= u]]

\* resp, listing: as in searchRelevantMemories.  The result is the
\* summary, or [kind |-> "null"]
getSessionSummary(m, f, c, e, sessionId, resp, listing) ==
    LET search == searchRelevantMemories(m, f, c, e, <<>>, sessionId,
                                         {SummaryLimit}, resp, listing)
        results == search.ret.val
        sessionFile == PathJoin(memoryDir, Str(sessionId) \o JsonExt)
        fromFile ==
            IF IsFile(f, sessionFile) /\ f.files[sessionFile].kind = "array"
            THEN JsonSummary(sessionId, f.files[sessionFile].recs)
            ELSE [kind |-> "null"]
        none == [ret |-> [kind |-> "value", val |-> fromFile], events |-> <<>>,
                 queries |-> <<>>, path |-> "none", resp |-> resp]
    IN  IF m.collection
        THEN IF Len(results) > 0
             THEN [search EXCEPT !.ret.val =
                      [kind |-> "vector",
                       sessionId |-> sessionId,
                       conversationCount |-> Len(results),
                       recentMemories |-> Slice0(results, RecentLimit)]]
             ELSE [search EXCEPT !.ret.val = fromFile]
        ELSE none

----------------------------------------------------------------------------
(* Session deletion and bulk reload *)

\* deleteSession with an absent file counted as deleted
deleteSession_absentIsDeleted(f, sessionId, unlinkOk) ==
    LET sessionFile == PathJoin(memoryDir, Str(sessionId) \o JsonExt)
        rest == [p \in (DOMAIN f.files) \ {sessionFile} |-> f.files[p]]
    IN  IF unlinkOk
        THEN [fs |-> [f EXCEPT !.files = rest], ret |-> TRUE]
        ELSE [fs |-> f, ret |-> FALSE]

\* unlinkOk: whether fs.unlink succeeds on an existing file
deleteSession(f, sessionId, unlinkOk) ==
    LET sessionFile == PathJoin(memoryDir, Str(sessionId) \o JsonExt)
        rest == [p \in (DOMAIN f.files) \ {sessionFile} |-> f.files[p]]
    IN  IF IsFile(f, sessionFile) /\ unlinkOk
        THEN [fs |-> [f EXCEPT !.files = rest], ret |-> TRUE]
        ELSE [fs |-> f, ret |-> FALSE]

\* the argument of collection.add in reloadAllMemoriesFromJson (`origin`
\* as in StoreAddCall)
ReloadAddCall(memory) ==
    [origin |-> [userId |-> Field(memory, "userId"),
                 visibility |-> Field(memory, "visibility")],
     id |-> RecordId(Revive(memory)),
     document |-> Document(Revive(memory)),
     metadata |-> JsonObject(
        [sessionId |-> Field(memory, "sessionId"),
         timestamp |-> memory.timestamp,
         userMessage |-> Field(memory, "userMessage"),
         assistantResponse |-> Field(memory, "assistantResponse"),
         context |-> Join(memory.context, STR_CommaSpace),
         tags |-> Join(memory.tags, STR_CommaSpace)])]

\* the .json entries of the directories directly under memoryDir
ReloadFiles(f) ==
    {p \in {SubSeq(q, 1, 2) : q \in {x \in DOMAIN f.files : Len(x) >= 2}} :
        EndsWith(p[2], JsonExt)}

\* the orders in which the two nested readdir loops can enumerate them:
\* the files of one user directory are contiguous
ReloadOrders(f) ==
    {s \in Perms(ReloadFiles(f)) :
        \A i, j, k \in DOMAIN s :
            (i < j /\ j < k /\ s[i][1] = s[k][1]) => s[j][1] = s[i][1]}

\* ReloadFile passing over the records whose id the index already holds
RECURSIVE ReloadFile_dedup(_, _, _, _, _)
ReloadFile_dedup(memories, ix, loaded, calls, failAt) ==
    IF memories = <<>>
    THEN [index |-> ix, loaded |-> loaded, calls |-> calls, error |-> FALSE]
    ELSE IF \E j \in DOMAIN ix : ix[j].id = ReloadAddCall(Head(memories)).id
         THEN ReloadFile_dedup(Tail(memories), ix, loaded, calls, failAt)
    ELSE IF calls + 1 = failAt
         THEN [index |-> ix, loaded |-> loaded, calls |-> calls + 1, error |-> TRUE]
    ELSE ReloadFile_dedup(Tail(memories), Append(ix, ReloadAddCall(Head(memories))),
                          loaded + 1, calls + 1, failAt)

\* one session file: adds its records in array order; `calls` counts the
\* collection.add calls made so far, and the call numbered failAt throws,
\* which ends the file
RECURSIVE ReloadFile(_, _, _, _, _)
ReloadFile(memories, ix, loaded, calls, failAt) ==
    IF memories = <<>>
    THEN [index |-> ix, loaded |-> loaded, calls |-> calls, error |-> FALSE]
    ELSE IF calls + 1 = failAt
         THEN [index |-> ix, loaded |-> loaded, calls |-> calls + 1, error |-> TRUE]
    ELSE ReloadFile(Tail(memories), Append(ix, ReloadAddCall(Head(memories))),
                    loaded + 1, calls + 1, failAt)

\* ReloadLoop giving up at the first file that fails
RECURSIVE ReloadLoop_stops(_, _, _, _, _, _, _)
ReloadLoop_stops(f, sessionFiles, ix, loaded, errors, calls, failAt) ==
    IF sessionFiles = <<>> THEN [index |-> ix, loaded |-> loaded, errors |-> errors]
    ELSE LET filePath == Head(sessionFiles)
             readable == IsFile(f, filePath) /\ f.files[filePath].kind = "array"
             one == ReloadFile(f.files[filePath].recs, ix, loaded, calls, failAt)
         IN  IF ~readable
             THEN [index |-> ix, loaded |-> loaded, errors |-> errors + 1]
             ELSE IF one.error
                  THEN [index |-> one.index, loaded |-> one.loaded,
                        errors |-> errors + 1]
             ELSE ReloadLoop_stops(f, Tail(sessionFiles), one.index, one.loaded,
                                   errors, one.calls, failAt)

RECURSIVE ReloadLoop(_, _, _, _, _, _, _)
ReloadLoop(f, sessionFiles, ix, loaded, errors, calls, failAt) ==
    IF sessionFiles = <<>> THEN [index |-> ix, loaded |-> loaded, errors |-> errors]
    ELSE LET filePath == Head(sessionFiles)
             readable == IsFile(f, filePath) /\ f.files[filePath].kind = "array"
             one == ReloadFile(f.files[filePath].recs, ix, loaded, calls, failAt)
         IN  IF ~readable
             THEN ReloadLoop(f, Tail(sessionFiles), ix, loaded, errors + 1, calls, failAt)
             ELSE ReloadLoop(f, Tail(sessionFiles), one.index, one.loaded,
                             IF one.error THEN errors + 1 ELSE errors,
                             one.calls, failAt)

\* sessionFiles: the enumeration the readdir calls produced; failAt: the
\* ordinal of the collection.add call that throws, 0 for none
reloadAllMemoriesFromJson(m, f, ix, sessionFiles, failAt) ==
    IF ~m.collection
    THEN [index |-> ix, ret |-> [loaded |-> 0, errors |-> 0]]
    ELSE LET r == ReloadLoop(f, sessionFiles, ix, 0, 0, 0, failAt)
         IN  [index |-> r.index, ret |-> [loaded |-> r.loaded, errors |-> r.errors]]

----------------------------------------------------------------------------
(* Tag and context extraction *)

commonTags ==
    <<<<"j", "a", "v", "a", "s", "c", "r", "i", "p", "t">>,
      <<"t", "y", "p", "e", "s", "c", "r", "i", "p", "t">>,
      <<"p", "y", "t", "h", "o", "n">>,
      <<"r", "e", "a", "c", "t">>,
      <<"n", "o", "d", "e">>,
      <<"d", "o", "c", "k", "e", "r">>,
      <<"k", "u", "b", "e", "r", "n", "e", "t", "e", "s">>,
      <<"a", "w", "s">>,
      <<"d", "a", "t", "a", "b", "a", "s", "e">>,
      <<"a", "p", "i">>,
      <<"f", "r", "o", "n", "t", "e", "n", "d">>,
      <<"b", "a", "c", "k", "e", "n", "d">>,
      <<"d", "e", "p", "l", "o", "y", "m", "e", "n", "t">>,
      <<"s", "e", "c", "u", "r", "i", "t", "y">>,
      <<"p", "e", "r", "f", "o", "r", "m", "a", "n", "c", "e">>,
      <<"t", "e", "s", "t", "i", "n", "g">>,
      <<"d", "e", "b", "u", "g", "g", "i", "n", "g">>,
      <<"c", "o", "n", "f", "i", "g", "u", "r", "a", "t", "i", "o", "n">>,
      <<"i", "n", "t", "e", "g", "r", "a", "t", "i", "o", "n">>,
      <<"a", "u", "t", "h", "e", "n", "t", "i", "c", "a", "t", "i", "o", "n">>,
      <<"m", "o", "n", "i", "t", "o", "r", "i", "n", "g">>>>

extractTags(text) ==
    SelectSeq(commonTags, LAMBDA tag : Includes(ToLowerCase(text), tag))

WhiteSpace == {" ", "\n", "\t", "\r"}

\* the longest run of characters from position i on that are neither
\* white space nor a comma: [^\s,]+
RECURSIVE Token(_, _)
Token(text, i) ==
    IF i > Len(text) \/ text[i] \in WhiteSpace \/ text[i] = "," THEN <<>>
    ELSE <<text[i]>> \o Token(text, i + 1)

RECURSIVE SkipSpace(_, _)
SkipSpace(text, i) ==
    IF i <= Len(text) /\ text[i] \in WhiteSpace THEN SkipSpace(text, i + 1) ELSE i

StartsAt(text, i, word) ==
    /\ i + Len(word) - 1 <= Len(text)
    /\ ToLowerCase(SubSeq(text, i, i + Len(word) - 1)) = word

FileWords == <<<<"f","i","l","e",":">>, <<"f","i","l","e","n","a","m","e",":">>,
               <<"p","a","t","h",":">>>>
UrlWords == <<<<"h","t","t","p",":","/","/">>, <<"h","t","t","p","s",":","/","/">>>>
STR_file == <<"f", "i", "l", "e", ":", " ">>
STR_url == <<"u", "r", "l", ":", " ">>

\* /(?:file:|filename:|path:)\s*([^\s,]+)/gi, each match as `file: ${match[1]}`
RECURSIVE FileRefs(_, _)
FileRefs(text, i) ==
    IF i > Len(text) THEN <<>>
    ELSE LET words == SelectSeq(FileWords, LAMBDA w : StartsAt(text, i, w))
         IN  IF words = <<>> THEN FileRefs(text, i + 1)
             ELSE LET from == SkipSpace(text, i + Len(words[1]))
                      token == Token(text, from)
                  IN  IF token = <<>> THEN FileRefs(text, i + 1)
                      ELSE <<STR_file \o token>>
                           \o FileRefs(text, from + Len(token))

\* /https?:\/\/[^\s,]+/gi, each match as `url: ${match[0]}`
RECURSIVE Urls(_, _)
Urls(text, i) ==
    IF i > Len(text) THEN <<>>
    ELSE LET words == SelectSeq(UrlWords, LAMBDA w : StartsAt(text, i, w))
         IN  IF words = <<>> THEN Urls(text, i + 1)
             ELSE LET token == Token(text, i + Len(words[1]))
                  IN  IF token = <<>> THEN Urls(text, i + 1)
                      ELSE <<STR_url \o SubSeq(text, i, i + Len(words[1]) - 1)
                                     \o token>>
                           \o Urls(text, i + Len(words[1]) + Len(token))

extractContext(text) == Dedupe(FileRefs(text, 1) \o Urls(text, 1))

----------------------------------------------------------------------------
(* The tool boundary: the tools the server lists, the call handler of      *)
(* index.ts and handleMemoryTool.  A request carries a tool name and,      *)
(* when hasArgs, an arguments object: a function from the argument names   *)
(* given to their values.                                                  *)

\* the names of memoryTools, which the server lists
memoryTools ==
    {"store_conversation_memory", "search_conversation_memory",
     "get_session_context", "build_context_prompt", "list_memory_sessions",
     "reload_memories_from_json", "delete_memory_session", "memory_status"}

\* inputSchema.required of each
Required(name) ==
    CASE name = "store_conversation_memory" ->
            {"sessionId", "userMessage", "assistantResponse"}
      [] name = "search_conversation_memory" -> {"query"}
      [] name = "get_session_context" -> {"sessionId"}
      [] name = "build_context_prompt" -> {"currentMessage", "sessionId"}
      [] name = "delete_memory_session" -> {"sessionId"}
      [] OTHER -> {}

\* the case labels of the call handler that lead to handleMemoryTool
RoutedTools ==
    {"store_conversation_memory", "search_conversation_memory",
     "get_session_context", "build_context_prompt", "list_memory_sessions",
     "delete_memory_session", "memory_status"}

\* args.k
Arg(args, k) == IF k \in DOMAIN args THEN args[k] ELSE Undefined

\* a numeric argument, as the set Given reads
NumArg(args, k) == IF k \in DOMAIN args THEN {args[k]} ELSE {}

\* the memory store_conversation_memory builds; now: Date.now()
ToolMemory(args, now) ==
    LET combinedText == Str(Arg(args, "userMessage")) \o <<" ">>
                        \o Str(Arg(args, "assistantResponse"))
        auto == ~("autoExtract" \in DOMAIN args /\ args.autoExtract = FALSE)
        tags0 == IF "tags" \in DOMAIN args THEN args.tags ELSE <<>>
        context0 == IF "context" \in DOMAIN args THEN args.context ELSE <<>>
    IN  [sessionId |-> Arg(args, "sessionId"),
         timestamp |-> now,
         userMessage |-> Arg(args, "userMessage"),
         assistantResponse |-> Arg(args, "assistantResponse"),
         context |-> IF auto THEN Dedupe(context0 \o extractContext(combinedText))
                     ELSE context0,
         tags |-> IF auto THEN Dedupe(tags0 \o extractTags(combinedText))
                  ELSE tags0,
         source |-> Undefined, userId |-> Undefined, teamId |-> Undefined,
         visibility |-> Undefined, projectId |-> Undefined, domain |-> Undefined]

\* the text of store_conversation_memory, by the boolean of storeConversation
StoreToolReport(success) == IF success THEN "stored" ELSE "failed"

Reply(text) == [isError |-> FALSE, text |-> text]
ErrorReply(text) == [isError |-> TRUE, text |-> text]

\* what one tool call leaves: the manager, the disk, the index, the reply,
\* and the calls it made
ToolResult(m, f, ix, reply, events, queries) ==
    [mgr |-> m, fs |-> f, index |-> ix, reply |-> reply, events |-> events,
     queries |-> queries]

\* nd: what the call meets: io (disk and collection.add), now (the clock),
\* resp (collection.query), listing and sessionFiles (fs.readdir), unlinkOk.
\* A reply text is the name of its template with the values it carries.
handleMemoryTool(name, hasArgs, args, m, f, ix, c, e, nd) ==
    LET typeError == ToolResult(m, f, ix, ErrorReply(<<"TypeError">>), <<>>, <<>>)
        read(r, text) == ToolResult(m, f, ix, Reply(text), r.events, r.queries)
    IN  CASE name = "store_conversation_memory" ->
              IF ~hasArgs THEN typeError
              ELSE LET memory == ToolMemory(args, nd.now)
                       r == storeConversation(m, f, ix, c, e, memory, nd.io)
                   IN  ToolResult(r.mgr, r.fs, r.index,
                           Reply(<<StoreToolReport(r.ret.val),
                                   Arg(args, "sessionId"),
                                   Len(memory.tags), Len(memory.context)>>),
                           r.events, <<>>)
          [] name = "search_conversation_memory" ->
              IF ~hasArgs THEN typeError
              ELSE LET r == searchRelevantMemories(m, f, c, e, Arg(args, "query"),
                                Arg(args, "sessionId"), NumArg(args, "limit"),
                                nd.resp, nd.listing)
                   IN  read(r, IF Len(r.ret.val) = 0 THEN <<"none_found">>
                               ELSE <<"found", r.ret.val>>)
          [] name = "get_session_context" ->
              IF ~hasArgs THEN typeError
              ELSE LET r == getSessionSummary(m, f, c, e, Arg(args, "sessionId"),
                                              nd.resp, nd.listing)
                   IN  read(r, <<"summary", r.ret.val>>)
          [] name = "build_context_prompt" ->
              IF ~hasArgs THEN typeError
              ELSE LET r == buildContextPrompt(m, f, c, e,
                                Arg(args, "currentMessage"), Arg(args, "sessionId"),
                                NumArg(args, "maxContextLength"),
                                nd.resp, nd.listing)
                   IN  read(r, <<"prompt", r.ret.val>>)
          [] name = "list_memory_sessions" ->
              LET sessions == listSessions(f, c, e, nd.listing)
              IN  ToolResult(m, f, ix,
                      Reply(IF Len(sessions) > 0 THEN <<"sessions", sessions>>
                            ELSE <<"no_sessions">>), <<>>, <<>>)
          [] name = "reload_memories_from_json" ->
              LET r == reloadAllMemoriesFromJson(m, f, ix, nd.sessionFiles, 0)
              IN  ToolResult(m, f, r.index,
                      Reply(<<"reloaded", r.ret.loaded, r.ret.errors>>), <<>>, <<>>)
          [] name = "delete_memory_session" ->
              IF ~hasArgs THEN typeError
              ELSE LET r == deleteSession(f, Arg(args, "sessionId"), nd.unlinkOk)
                   IN  ToolResult(m, r.fs, ix,
                           Reply(<<"deleted", Arg(args, "sessionId")>>), <<>>, <<>>)
          [] name = "memory_status" ->
              ToolResult(m, f, ix,
                  Reply(<<"status", isAvailable(m),
                          Len(listSessions(f, c, e, nd.listing))>>), <<>>, <<>>)
          [] OTHER ->
              ToolResult(m, f, ix, ErrorReply(<<"Unknown memory tool", name>>),
                         <<>>, <<>>)

\* the CallTool request handler, as far as the memory tools go: an error
\* thrown below it becomes a reply with isError
CallToolRequest(name, hasArgs, args, m, f, ix, c, e, nd) ==
    IF name \in RoutedTools
    THEN handleMemoryTool(name, hasArgs, args, m, f, ix, c, e, nd)
    ELSE ToolResult(m, f, ix, ErrorReply(<<"Unknown tool", name>>), <<>>, <<>>)

----------------------------------------------------------------------------
(* The REST client of the vector backend *)

STR_default == <<"d", "e", "f", "a", "u", "l", "t">>

\* a ?? b
Nullish(a, b) == IF a = Undefined \/ a = Null THEN b ELSE a

\* new ChromaRest(opts), as far as tenant and database go
ChromaRest(opts) ==
    [tenant |-> Nullish(opts.tenant, STR_default),
     database |-> Nullish(opts.database, STR_default)]

NoOptions == [tenant |-> Undefined, database |-> Undefined]

\* the startup of the REST server, where it is not followed
NotBooting == [pc |-> "none", elapsed |-> 0, beats |-> 0, last |-> "none",
               failed |-> FALSE]

\* a server nothing has been provisioned on
FreshBackend == [tenants |-> {}, databases |-> {}, collections |-> {}]

\* what `await fetch(...)` gives: a response with a status, or a rejection
Response(status) == [kind |-> "response", status |-> status]
Rejected == [kind |-> "reject", status |-> 0]

Done == [kind |-> "value", val |-> TRUE]
Raise == [kind |-> "throw", val |-> <<>>]

\* r.status === 200
heartbeat(r) == IF r.kind = "reject" THEN Raise
                ELSE [kind |-> "value", val |-> (r.status = 200)]

\* the status is never read
ensureTenant(r) == IF r.kind = "reject" THEN Raise ELSE Done

ensureDatabase(r) == IF r.kind = "reject" THEN Raise ELSE Done

\* ensureCollection with 'already exists' taken for a failure
ensureCollection_strict(r) ==
    IF r.kind = "reject" THEN Raise
    ELSE IF r.status \notin {200, 201} THEN Raise ELSE Done

ensureCollection(r) ==
    IF r.kind = "reject" THEN Raise
    ELSE IF r.status \notin {200, 201, 409} THEN Raise ELSE Done

getCollection(r) ==
    IF r.kind = "reject" THEN Raise
    ELSE IF r.status # 200 THEN Raise ELSE Done

----------------------------------------------------------------------------
(* Inputs *)

U1 == <<"u", "1">>
\* an identity with a character outside [a-zA-Z0-9._-]
U2 == <<"u", "@", "2">>
U3 == <<"u", "3">>
T1 == <<"t", "1">>
T2 == <<"t", "2">>
S1 == <<"s", "1">>
S2 == <<"s", "2">>
MsgDocker == <<"F", "i", "x", " ", "D", "o", "c", "k", "e", "r">>
MsgOther == <<"n", "g", "i", "n", "x">>
RespOk == <<"o", "k">>
TagApi == <<"a", "p", "i">>

\* the identities RequestContext.set is called with
CtxUsers == {U2}
CtxTeams == {T1}
SessionIds == {S1, S2}
Visibilities == {Undefined, STR_private, STR_team, STR_public}

Memory(sessionId, timestamp, userMessage, tags, visibility) ==
    [sessionId |-> sessionId, timestamp |-> timestamp,
     userMessage |-> userMessage, assistantResponse |-> RespOk,
     context |-> <<>>, tags |-> tags, source |-> Undefined,
     userId |-> Undefined, teamId |-> Undefined, visibility |-> visibility,
     projectId |-> Undefined, domain |-> Undefined]

Memories ==
    {Memory(S1, 1, MsgDocker, <<>>, Undefined),
     Memory(S1, 2, MsgOther, <<TagApi>>, STR_private),
     Memory(S1, 2, MsgDocker, <<>>, STR_team),
     [Memory(S2, 1, MsgDocker, <<>>, STR_public)
         EXCEPT !.userId = U3, !.teamId = T2]}

Env(userId, teamId, disable, privateOnly) ==
    [MCP_USER_ID |-> userId, MCP_TEAM_ID |-> teamId,
     MCP_DISABLE_JSON |-> disable, MCP_PRIVATE_JSON_ONLY |-> privateOnly,
     MCP_PROJECT_ID |-> Undefined]

\* every setting of the two persistence flags, with and without an
\* environment identity
Envs ==
    {Env(id[1], id[2], d, p) :
        id \in {<<Undefined, Undefined>>, <<U1, T1>>},
        d \in {Undefined, <<"T", "r", "u", "e">>},
        p \in {Undefined, <<"0">>}}

\* JSON persistence on: the defaults, and private records also indexed
JsonEnvs ==
    {Env(Undefined, Undefined, Undefined, Undefined),
     Env(U1, T1, Undefined, <<"0">>)}

EmptyDisk == [files |-> <<>>]

\* what an earlier process may have left under memoryDir: nothing, or a
\* session file cut short by a crash, one holding JSON that is no array,
\* and a session file of the layout without user directories
\* (memory-extension-backup.ts wrote <memoryDir>/<sessionId>.json)
DamagedDisk ==
    [files |-> (<<STR_unknown_user, S2 \o JsonExt>> :> CorruptFile)
               @@ (<<Sanitize(U2), S2 \o JsonExt>> :> NonArrayFile)
               @@ (<<S2 \o JsonExt>> :> ArrayFile(<<>>))]

InitialDisks == {EmptyDisk, DamagedDisk}

MsgQuery == <<"D", "o", "c", "k", "e", "r">>

----------------------------------------------------------------------------
(* State *)

DiskRecords(f) ==
    LET paths == DOMAIN f.files
        RECURSIVE Sum(_)
        Sum(S) == IF S = {} THEN 0
                  ELSE LET p == CHOOSE q \in S : TRUE
                       IN  Len(f.files[p].recs) + Sum(S \ {p})
    IN  Sum(paths)

NoResponse == [kind |-> "throw", documents |-> <<>>, metadatas |-> <<>>,
               distances |-> <<>>]

NoOp == [op |-> "none", args |-> <<>>, ret |-> [kind |-> "value", val |-> FALSE],
         events |-> <<>>, queries |-> <<>>, path |-> "none", resp |-> NoResponse]

Op(name, args, ret, events, queries, path) ==
    [op |-> name, args |-> args, ret |-> ret, events |-> events,
     queries |-> queries, path |-> path, resp |-> NoResponse]

Requests == {1, 2}

\* a request: who sent it, what it was called with, and what it holds
\* between its awaits: the cells as it read them (seen), the session file
\* it resolved, the array it read from the file, what it returned
Call(op, pc, who, memory) ==
    [op |-> op, pc |-> pc, who |-> who, memory |-> memory,
     seen |-> RequestContext_clear, file |-> <<>>, data |-> <<>>,
     ret |-> FALSE, path |-> "none", found |-> <<>>]

\* no request in progress
NoCalls ==
    [r \in Requests |->
        Call("none", "idle", RequestContext_clear,
             Memory(S1, 1, MsgDocker, <<>>, Undefined))]

InitOn(envs, disks) ==
    /\ ctx = RequestContext_clear
    /\ env \in envs
    /\ mgr \in [client : BOOLEAN, collection : {FALSE}, initialized : {FALSE}]
    /\ fs \in disks
    /\ index = <<>>
    /\ lastOp = NoOp
    /\ used = [stores |-> 0, reloads |-> 0, faults |-> 0]
    /\ chroma = ChromaRest(NoOptions)
    /\ backend = FreshBackend
    /\ boot = NotBooting
    /\ inflight = NoCalls

InitWith(envs) == InitOn(envs, InitialDisks)

SetContext(userId, teamId) ==
    /\ ctx' = RequestContext_set(userId, teamId)
    /\ lastOp' = NoOp
    /\ UNCHANGED <<env, mgr, fs, index, used, chroma, backend, boot, inflight>>

ClearContext ==
    /\ ctx' = RequestContext_clear
    /\ lastOp' = NoOp
    /\ UNCHANGED <<env, mgr, fs, index, used, chroma, backend, boot, inflight>>

Initialize(outcome) ==
    /\ mgr' = initialize(mgr, outcome)
    /\ lastOp' = NoOp
    /\ UNCHANGED <<ctx, env, fs, index, used, chroma, backend, boot, inflight>>

StoreIo(init, mkdir, write, add) ==
    [init |-> init, mkdir |-> mkdir, write |-> write, add |-> add]

\* the outcomes of the calls a store can make; calls that are not made
\* have no outcome to choose.  faulty: whether the disk and collection.add
\* may fail
StoreIos(m, e, faulty) ==
    {StoreIo(init, d[1], d[2], add) :
        init \in (IF m.initialized THEN {"existing"} ELSE InitOutcomes),
        d \in (IF disableJson(e) \/ ~faulty THEN {<<TRUE, TRUE>>}
               ELSE {<<TRUE, TRUE>>, <<FALSE, TRUE>>, <<TRUE, FALSE>>}),
        add \in (IF faulty THEN BOOLEAN ELSE {TRUE})}

\* the calls of a store or a search that failed
Failures(events) == Cardinality({i \in DOMAIN events : ~events[i].ok})

StoreConversation(memory, io) ==
    /\ used.stores < MaxStores
    /\ \E r \in {storeConversation(mgr, fs, index, ctx, env, memory, io)} :
           /\ (\A i \in DOMAIN r.events : r.events[i].e # "add") => io.add
           /\ used.faults + Failures(r.events) <= MaxFaults
           /\ used' = [used EXCEPT !.stores = @ + 1,
                                   !.faults = @ + Failures(r.events)]
           /\ mgr' = r.mgr
           /\ fs' = r.fs
           /\ index' = r.index
           /\ lastOp' = Op("store", <<memory>>, r.ret, r.events, <<>>, "none")
    /\ UNCHANGED <<ctx, env, chroma, backend, boot, inflight>>

\* what collection.query can answer: nothing is asked without a collection
Answers(m, ix, where, nResults) ==
    IF m.collection /\ m.client THEN QueryResponses(ix, where, nResults)
    ELSE {NoResponse}

\* what fs.readdir(userDir) can answer: it is called only without a sessionId
Readdirs(f, c, e, sessionId) ==
    IF Falsy(sessionId) THEN Listings(f, ActiveUserDir(c, e)) ELSE {<<>>}

SearchRelevantMemories(query, sessionId, limit) ==
    /\ \E resp \in Answers(mgr, index, SearchWhere(ctx, env, sessionId),
                          Given(limit, DefaultLimit)),
          listing \in Readdirs(fs, ctx, env, sessionId) :
        \E r \in {searchRelevantMemories(mgr, fs, ctx, env, query, sessionId,
                                         limit, resp, listing)} :
            lastOp' = [Op("search", <<query, sessionId, limit, listing>>,
                          r.ret, r.events, r.queries, r.path) EXCEPT !.resp = r.resp]
    /\ UNCHANGED <<ctx, env, mgr, fs, index, used, chroma, backend, boot, inflight>>

\* buildContextPrompt with collection.query answering one of resps
BuildContextPromptFrom(resps, currentMessage, sessionId, maxLength) ==
    /\ \E resp \in resps, listing \in Readdirs(fs, ctx, env, sessionId) :
        \E r \in {buildContextPrompt(mgr, fs, ctx, env, currentMessage, sessionId,
                                     maxLength, resp, listing)} :
            lastOp' = [Op("prompt", <<currentMessage, sessionId, maxLength, listing>>,
                          r.ret, r.events, r.queries, r.path) EXCEPT !.resp = r.resp]
    /\ UNCHANGED <<ctx, env, mgr, fs, index, used, chroma, backend, boot, inflight>>

BuildContextPrompt(currentMessage, sessionId, maxLength) ==
    BuildContextPromptFrom(Answers(mgr, index, SearchWhere(ctx, env, sessionId),
                                   PromptLimit),
                           currentMessage, sessionId, maxLength)

ListSessions ==
    /\ \E listing \in Listings(fs, ActiveUserDir(ctx, env)) :
          lastOp' = Op("list", <<listing>>,
                       [kind |-> "value",
                        val |-> listSessions(fs, ctx, env, listing)],
                       <<>>, <<>>, "none")
    /\ UNCHANGED <<ctx, env, mgr, fs, index, used, chroma, backend, boot, inflight>>

GetSessionSummary(sessionId) ==
    /\ \E resp \in Answers(mgr, index, SearchWhere(ctx, env, sessionId), SummaryLimit),
          listing \in Readdirs(fs, ctx, env, sessionId) :
        \E r \in {getSessionSummary(mgr, fs, ctx, env, sessionId, resp, listing)} :
            lastOp' = [Op("summary", <<sessionId>>, r.ret, r.events, r.queries, r.path)
                          EXCEPT !.resp = r.resp]
    /\ UNCHANGED <<ctx, env, mgr, fs, index, used, chroma, backend, boot, inflight>>

\* deleteSession also deleting the session's entries from the collection
DeleteSession_purges(sessionId, unlinkOk) ==
    /\ LET r == deleteSession(fs, sessionId, unlinkOk)
           kept(entry) == Field(entry.metadata, "sessionId") # sessionId
       IN  /\ fs' = r.fs
           /\ index' = IF r.ret THEN SelectSeq(index, kept) ELSE index
           /\ lastOp' = Op("delete", <<sessionId, unlinkOk>>,
                           [kind |-> "value", val |-> r.ret], <<>>, <<>>, "none")
    /\ UNCHANGED <<ctx, env, mgr, used, chroma, backend, boot, inflight>>

DeleteSession(sessionId, unlinkOk) ==
    /\ LET r == deleteSession(fs, sessionId, unlinkOk)
       IN  /\ fs' = r.fs
           /\ lastOp' = Op("delete", <<sessionId, unlinkOk>>,
                           [kind |-> "value", val |-> r.ret], <<>>, <<>>, "none")
    /\ UNCHANGED <<ctx, env, mgr, index, used, chroma, backend, boot, inflight>>

ReloadAllMemoriesFromJson(failAt) ==
    /\ \/ used.reloads < MaxReloads
       \/ /\ lastOp.op = "reload"
          /\ used.reloads < MaxReloads + MaxRepeats
          /\ failAt = 0
    /\ failAt <= DiskRecords(fs)
    /\ failAt > 0 => used.faults < MaxFaults
    /\ used' = [used EXCEPT !.reloads = @ + 1,
                            !.faults = @ + (IF failAt > 0 THEN 1 ELSE 0)]
    /\ \E sessionFiles \in ReloadOrders(fs) :
        LET r == reloadAllMemoriesFromJson(mgr, fs, index, sessionFiles, failAt)
        IN  /\ index' = r.index
            /\ lastOp' = Op("reload", <<sessionFiles, failAt>>,
                            [kind |-> "value", val |-> r.ret], <<>>, <<>>, "none")
    /\ UNCHANGED <<ctx, env, mgr, fs, chroma, backend, boot, inflight>>

ReadOnlyOps == {"search", "prompt", "list", "summary"}

\* A read-only call changes no variable but lastOp, so what can follow it
\* is what can follow the state it was made in: a run is followed up to
\* its first read-only call.  A run also ends with its repeated reload.
Idle == lastOp.op \notin ReadOnlyOps /\ used.reloads <= MaxReloads

\* the operations that change the disk, the index, the mode or the identity
Writes(faulty) ==
    \/ \E u \in CtxUsers, t \in CtxTeams : Idle /\ SetContext(u, t)
    \/ Idle /\ ClearContext
    \/ \E outcome \in InitOutcomes : Idle /\ Initialize(outcome)
    \/ \E memory \in Memories, io \in StoreIos(mgr, env, faulty) :
          Idle /\ StoreConversation(memory, io)
    \/ \E s \in SessionIds, ok \in BOOLEAN : Idle /\ DeleteSession(s, ok)
    \/ \E failAt \in (IF faulty THEN 0..MaxStores ELSE {0}) :
          /\ Idle
          /\ faulty => used.reloads < MaxReloads
          /\ ReloadAllMemoriesFromJson(failAt)

SearchArgs ==
    {<<MsgQuery, Undefined, {}>>, <<MsgQuery, S1, {1}>>,
     <<<<>>, S1, {}>>, <<<<>>, Undefined, {1}>>}

PromptArgs ==
    {<<MsgQuery, Undefined, {}>>, <<MsgQuery, S1, {10}>>, <<MsgQuery, Undefined, {85}>>}

\* the read-only operations; they change nothing but lastOp
Reads ==
    \/ \E a \in SearchArgs : Idle /\ SearchRelevantMemories(a[1], a[2], a[3])
    \/ \E a \in PromptArgs : Idle /\ BuildContextPrompt(a[1], a[2], a[3])
    \/ Idle /\ ListSessions

Next == Writes(FALSE) \/ Reads

NextStore == Writes(TRUE)

Init == InitWith(JsonEnvs)
InitStore == InitWith(Envs)

\* every operation, JSON persistence on, the disk and collection.add working
Spec == Init /\ [][Next]_vars

\* the writing operations, under every setting of the persistence flags,
\* with failing disk writes and failing collection.add calls
SpecStore == InitStore /\ [][NextStore]_vars

----------------------------------------------------------------------------
(* RequestContext on its own: set with every kind of argument (omitted,    *)
(* null, empty, an identity) and clear, in any order.  Each call is        *)
(* followed by a read of both getters; the identity held before the call   *)
(* is remembered next to the arguments.                                    *)

NoValues == {Undefined, Null, <<>>}
UserArgs == NoValues \cup {U1, U2}
TeamArgs == NoValues \cup {T1, T2}

Getters(c) == [kind |-> "value",
               val |-> <<RequestContext_userId(c), RequestContext_teamId(c)>>]

ContextSet(userId, teamId) ==
    /\ ctx' = RequestContext_set(userId, teamId)
    /\ lastOp' = Op("set", <<userId, teamId, ctx.user, ctx.team>>,
                    Getters(RequestContext_set(userId, teamId)), <<>>, <<>>, "none")
    /\ UNCHANGED <<env, mgr, fs, index, used, chroma, backend, boot, inflight>>

ContextClear ==
    /\ ctx' = RequestContext_clear
    /\ lastOp' = Op("clear", <<ctx.user, ctx.team>>, Getters(RequestContext_clear),
                    <<>>, <<>>, "none")
    /\ UNCHANGED <<env, mgr, fs, index, used, chroma, backend, boot, inflight>>

InitContext == InitOn({Env(Undefined, Undefined, Undefined, Undefined)}, {EmptyDisk})

NextContext ==
    \/ \E userId \in UserArgs, teamId \in TeamArgs : ContextSet(userId, teamId)
    \/ ContextClear

SpecContext == InitContext /\ [][NextContext]_vars

----------------------------------------------------------------------------
(* Listing the sessions: identities set and cleared, stores, deletions and *)
(* listSessions, on an empty disk, the damaged one, or one on which the    *)
(* user of the environment has a session whose id holds ".json" inside,    *)
(* next to a file that is no session file.                                 *)

S3 == <<"a", ".", "j", "s", "o", "n", "b">>
Notes == <<"n", "o", "t", "e", "s">>

OddDisk ==
    [files |-> (<<STR_unknown_user, S3 \o JsonExt>>
                   :> ArrayFile(<<JsonObject([Memory(S3, 1, MsgDocker, <<>>, STR_team)
                                                EXCEPT !.userId = STR_unknown_user,
                                                       !.teamId = STR_default_team])>>))
               @@ (<<STR_unknown_user, Notes>> :> CorruptFile)]

InitList == InitOn(JsonEnvs, InitialDisks \cup {OddDisk})

NextList ==
    \/ \E u \in CtxUsers, t \in CtxTeams : Idle /\ SetContext(u, t)
    \/ Idle /\ ClearContext
    \/ \E memory \in Memories, io \in StoreIos(mgr, env, FALSE) :
          Idle /\ StoreConversation(memory, io)
    \/ \E s \in SessionIds, ok \in BOOLEAN : Idle /\ DeleteSession(s, ok)
    \/ Idle /\ ListSessions

SpecList == InitList /\ [][NextList]_vars

----------------------------------------------------------------------------
(* Session and user ids that are relative paths: stores of the usual       *)
(* records, of a record whose sessionId leads into the directory of user   *)
(* u3, and of a record whose userId is "..", and fallback searches in one  *)
(* of the usual sessions and in the session of that path.                  *)

DotDot == <<".", ".">>
IntoU3 == DotDot \o <<"/">> \o U3 \o <<"/">> \o S2

PathMemories ==
    Memories \cup {Memory(IntoU3, 3, MsgDocker, <<>>, STR_team),
                   [Memory(S1, 3, MsgDocker, <<>>, STR_team) EXCEPT !.userId = DotDot]}

InitPaths == InitOn(JsonEnvs, {EmptyDisk})

NextPaths ==
    \/ \E memory \in PathMemories, io \in StoreIos(mgr, env, FALSE) :
          Idle /\ StoreConversation(memory, io)
    \/ \E s \in {S2, IntoU3} : Idle /\ SearchRelevantMemories(MsgQuery, s, {})

SpecPaths == InitPaths /\ [][NextPaths]_vars

----------------------------------------------------------------------------
(* Every operation of the manager on the durable log: the writes, the      *)
(* reads, and the session summary.                                         *)

NextLog ==
    \/ Writes(FALSE)
    \/ Reads
    \/ \E s \in SessionIds : Idle /\ GetSessionSummary(s)

SpecLog == Init /\ [][NextLog]_vars

----------------------------------------------------------------------------
(* Searches under every kind of limit: negative, zero, and a positive one  *)
(* that the matches of a session can exceed or not, over the whole         *)
(* directory in each listing order or over one session.  Prompts under     *)
(* length limits between which the blocks of a session's records fit       *)
(* together, one at a time, or not at all; the empty message matches       *)
(* every record.  The collection may hold entries of other writers, whose  *)
(* metadata the query answers as null.                                     *)

\* the session file an earlier run of the server left after four stores
Earlier(userId, teamId) ==
    [i \in 1..4 |->
        JsonObject([Memory(S1, i, IF i \in {1, 3} THEN MsgDocker ELSE MsgOther,
                           <<>>, STR_team)
                       EXCEPT !.userId = userId, !.teamId = teamId])]

\* what the environment's user has on disk after that run
FullDisk ==
    [files |-> (<<STR_unknown_user, S1 \o JsonExt>>
                   :> ArrayFile(Earlier(STR_unknown_user, STR_default_team)))
               @@ (<<Sanitize(U1), S1 \o JsonExt>> :> ArrayFile(Earlier(U1, T1)))]

LimitArgs ==
    {<<MsgQuery, Undefined, {-1}>>, <<MsgQuery, Undefined, {0}>>,
     <<MsgQuery, Undefined, {2}>>, <<MsgQuery, S1, {-1}>>}

LengthArgs ==
    {<<<<>>, S1, {85}>>, <<<<>>, S1, {130}>>, <<<<>>, Undefined, {}>>,
     <<MsgQuery, S1, {-1}>>}

\* an answer of collection.query in which one entry has no metadata
BareAnswers(resps) ==
    UNION {{[resp EXCEPT !.metadatas[i] = NullObject] : i \in DOMAIN resp.metadatas} :
              resp \in {r \in resps : r.kind = "ok"}}

PromptAnswers(sessionId) ==
    LET resps == Answers(mgr, index, SearchWhere(ctx, env, sessionId), PromptLimit)
    IN  resps \cup BareAnswers(resps)

NextLimits ==
    \/ \E outcome \in InitOutcomes : Idle /\ Initialize(outcome)
    \/ \E memory \in Memories, io \in StoreIos(mgr, env, FALSE) :
          Idle /\ StoreConversation(memory, io)
    \/ \E a \in LimitArgs : Idle /\ SearchRelevantMemories(a[1], a[2], a[3])
    \/ \E a \in LengthArgs :
          Idle /\ BuildContextPromptFrom(PromptAnswers(a[2]), a[1], a[2], a[3])

InitLimits == InitOn(JsonEnvs, {EmptyDisk, FullDisk})

SpecLimits == InitLimits /\ [][NextLimits]_vars

----------------------------------------------------------------------------
(* The server as its callers see it: tool calls only.  The manager has     *)
(* been initialized at startup, and nothing in the server sets the         *)
(* request context.                                                        *)

RespPath == <<"s", "e", "e", " ", "p", "a", "t", "h", ":", " ", "x">>

\* the clock values Date.now() gives
Clock == {1, 2}

\* arguments of store_conversation_memory: complete, with a visibility,
\* with autoExtract off, and without the sessionId
StoreToolArgs ==
    {[sessionId |-> S1, userMessage |-> MsgDocker, assistantResponse |-> RespPath],
     [sessionId |-> S1, userMessage |-> MsgDocker, assistantResponse |-> RespOk,
      visibility |-> STR_private],
     [sessionId |-> S2, userMessage |-> MsgOther, assistantResponse |-> RespOk,
      tags |-> <<TagApi>>, autoExtract |-> FALSE],
     [userMessage |-> MsgDocker, assistantResponse |-> RespOk]}

SearchToolArgs ==
    {[query |-> MsgQuery], [query |-> MsgQuery, sessionId |-> S1, limit |-> 1],
     [sessionId |-> S1]}

SessionToolArgs == {[sessionId |-> S1], [sessionId |-> S2], [limit |-> 1]}

PromptToolArgs ==
    {[currentMessage |-> MsgQuery, sessionId |-> S1],
     [currentMessage |-> MsgQuery, sessionId |-> S1, maxContextLength |-> 10],
     [currentMessage |-> MsgQuery]}

NoArgs == [limit |-> 1]

Oracle(io, now, resp, listing, sessionFiles, unlinkOk) ==
    [io |-> io, now |-> now, resp |-> resp, listing |-> listing,
     sessionFiles |-> sessionFiles, unlinkOk |-> unlinkOk]

\* what a call of the tool can meet in the state it is made in
ToolOracles(name, args) ==
    LET quiet == StoreIo("existing", TRUE, TRUE, TRUE)
        searching(n) ==
            {Oracle(quiet, 1, resp, listing, <<>>, TRUE) :
                resp \in Answers(mgr, index,
                                 SearchWhere(ctx, env, Arg(args, "sessionId")), n),
                listing \in Readdirs(fs, ctx, env, Arg(args, "sessionId"))}
        listing == {Oracle(quiet, 1, NoResponse, l, <<>>, TRUE) :
                       l \in Listings(fs, ActiveUserDir(ctx, env))}
    IN  CASE name = "store_conversation_memory" ->
                {Oracle(io, now, NoResponse, <<>>, <<>>, TRUE) :
                    io \in StoreIos(mgr, env, FALSE), now \in Clock}
          [] name = "search_conversation_memory" ->
                searching(Given(NumArg(args, "limit"), DefaultLimit))
          [] name = "get_session_context" -> searching(SummaryLimit)
          [] name = "build_context_prompt" -> searching(PromptLimit)
          [] name = "list_memory_sessions" -> listing
          [] name = "memory_status" -> listing
          [] name = "reload_memories_from_json" ->
                {Oracle(quiet, 1, NoResponse, <<>>, sessionFiles, TRUE) :
                    sessionFiles \in ReloadOrders(fs)}
          [] name = "delete_memory_session" ->
                {Oracle(quiet, 1, NoResponse, <<>>, <<>>, ok) : ok \in BOOLEAN}

ReadOnlyTools ==
    {"search_conversation_memory", "get_session_context", "build_context_prompt",
     "list_memory_sessions", "memory_status"}

\* one CallTool request; a run is followed up to its first read-only tool
CallTool(name, hasArgs, args) ==
    /\ lastOp.op \notin ReadOnlyTools
    /\ name = "store_conversation_memory" => used.stores < MaxStores
    /\ used' = [used EXCEPT !.stores =
                   IF name = "store_conversation_memory" THEN @ + 1 ELSE @]
    /\ \E nd \in ToolOracles(name, args) :
          \E r \in {CallToolRequest(name, hasArgs, args, mgr, fs, index,
                                    ctx, env, nd)} :
              /\ mgr' = r.mgr
              /\ fs' = r.fs
              /\ index' = r.index
              /\ lastOp' = Op(name, <<hasArgs, args>>,
                              [kind |-> "value", val |-> r.reply],
                              r.events, r.queries, "none")
    /\ UNCHANGED <<ctx, env, chroma, backend, boot, inflight>>

NextTools ==
    \/ \E args \in StoreToolArgs, hasArgs \in BOOLEAN :
          CallTool("store_conversation_memory", hasArgs, args)
    \/ \E args \in SearchToolArgs : CallTool("search_conversation_memory", TRUE, args)
    \/ \E args \in SessionToolArgs : CallTool("get_session_context", TRUE, args)
    \/ \E args \in PromptToolArgs : CallTool("build_context_prompt", TRUE, args)
    \/ CallTool("list_memory_sessions", TRUE, NoArgs)
    \/ CallTool("reload_memories_from_json", TRUE, NoArgs)
    \/ \E args \in SessionToolArgs, hasArgs \in BOOLEAN :
          CallTool("delete_memory_session", hasArgs, args)
    \/ CallTool("memory_status", FALSE, NoArgs)

\* the state index.ts reaches before it serves requests: the manager
\* constructed and initialized
InitTools ==
    /\ ctx = RequestContext_clear
    /\ env \in JsonEnvs
    /\ mgr \in {initialize([client |-> client, collection |-> FALSE,
                            initialized |-> FALSE], outcome) :
                   client \in BOOLEAN, outcome \in InitOutcomes}
    /\ fs \in InitialDisks
    /\ index = <<>>
    /\ lastOp = NoOp
    /\ used = [stores |-> 0, reloads |-> 0, faults |-> 0]
    /\ chroma = ChromaRest(NoOptions)
    /\ backend = FreshBackend
    /\ boot = NotBooting
    /\ inflight = NoCalls

SpecTools == InitTools /\ [][NextTools]_vars

----------------------------------------------------------------------------
(* Provisioning the vector backend through ChromaRest.  The server answers *)
(* a POST that creates with 200 or 201, one for what exists with 409, one  *)
(* below a missing parent with 404; any request may fail with 500 or not   *)
(* be answered at all.                                                     *)

Acme == <<"a", "c", "m", "e">>
CollA == <<"l", "l", "m">>
CollB == <<"o", "p", "s">>
CollectionNames == {CollA, CollB}

RestOptions == [tenant : {Undefined, Acme}, database : {Undefined, Acme}]

Answer(response, b) == [response |-> response, backend |-> b]

\* answers to any request that leave the server as it is
Unserved(b) == {Answer(Response(500), b), Answer(Rejected, b)}

\* POST /api/v2/tenants {name}
PostTenant(b, tenant) ==
    Unserved(b) \cup
    IF tenant \in b.tenants THEN {Answer(Response(409), b)}
    ELSE {Answer(Response(st), [b EXCEPT !.tenants = @ \cup {tenant}]) :
             st \in {200, 201}}

\* POST /api/v2/tenants/<tenant>/databases {name}
PostDatabase(b, tenant, database) ==
    Unserved(b) \cup
    IF tenant \notin b.tenants THEN {Answer(Response(404), b)}
    ELSE IF <<tenant, database>> \in b.databases THEN {Answer(Response(409), b)}
    ELSE {Answer(Response(st),
                 [b EXCEPT !.databases = @ \cup {<<tenant, database>>}]) :
             st \in {200, 201}}

\* POST <td>/collections {name}
PostCollection(b, tenant, database, name) ==
    Unserved(b) \cup
    IF <<tenant, database>> \notin b.databases THEN {Answer(Response(404), b)}
    ELSE IF <<tenant, database, name>> \in b.collections
         THEN {Answer(Response(409), b)}
    ELSE {Answer(Response(st),
                 [b EXCEPT !.collections = @ \cup {<<tenant, database, name>>}]) :
             st \in {200, 201}}

\* GET <td>/collections/<name>
GetCollectionAnswers(b, tenant, database, name) ==
    Unserved(b) \cup
    {Answer(Response(IF <<tenant, database, name>> \in b.collections
                     THEN 200 ELSE 404), b)}

\* GET /api/v2/heartbeat
GetHeartbeat(b) == Unserved(b) \cup {Answer(Response(200), b)}

RestCall(name, arg, answer, ret) ==
    /\ backend' = answer.backend
    /\ lastOp' = Op(name, <<arg, answer.response>>, ret, <<>>, <<>>, "none")
    /\ UNCHANGED <<ctx, env, mgr, fs, index, used, chroma, boot, inflight>>

Heartbeat ==
    \E a \in GetHeartbeat(backend) :
        RestCall("heartbeat", <<>>, a, heartbeat(a.response))

EnsureTenant ==
    \E a \in PostTenant(backend, chroma.tenant) :
        RestCall("ensureTenant", chroma.tenant, a, ensureTenant(a.response))

EnsureDatabase ==
    \E a \in PostDatabase(backend, chroma.tenant, chroma.database) :
        RestCall("ensureDatabase", chroma.database, a, ensureDatabase(a.response))

EnsureCollection(name) ==
    \E a \in PostCollection(backend, chroma.tenant, chroma.database, name) :
        RestCall("ensureCollection", name, a, ensureCollection(a.response))

GetCollection(name) ==
    \E a \in GetCollectionAnswers(backend, chroma.tenant, chroma.database, name) :
        RestCall("getCollection", name, a, getCollection(a.response))

InitRest ==
    /\ ctx = RequestContext_clear
    /\ env = Env(Undefined, Undefined, Undefined, Undefined)
    /\ mgr = [client |-> FALSE, collection |-> FALSE, initialized |-> FALSE]
    /\ fs = EmptyDisk
    /\ index = <<>>
    /\ lastOp = NoOp
    /\ used = [stores |-> 0, reloads |-> 0, faults |-> 0]
    /\ chroma \in {ChromaRest(opts) : opts \in RestOptions}
    /\ backend = FreshBackend
    /\ boot = NotBooting
    /\ inflight = NoCalls

NextRest ==
    \/ Heartbeat
    \/ EnsureTenant
    \/ EnsureDatabase
    \/ \E name \in CollectionNames : EnsureCollection(name)
    \/ \E name \in CollectionNames : GetCollection(name)

SpecRest == InitRest /\ [][NextRest]_vars

----------------------------------------------------------------------------
(* Startup of the REST server: initialize().finally(startHttp).  Time is   *)
(* in seconds; elapsed is Date.now() - start.                              *)

\* 60_000 ms
WaitLimit == 60
\* setTimeout(r, 1000)
PollInterval == 1
\* the longest one heartbeat request takes to settle, in seconds
MaxBeat == 2

\* Date.now() - start < 60_000
Waiting(elapsed) == elapsed < WaitLimit

\* if (await chroma.heartbeat()) break, with a throw counted as alive
BeatAlive_throwEnds(ret) == ret.kind = "throw" \/ ret.val

\* if (await chroma.heartbeat()) break, inside try {} catch {}
BeatAlive(ret) == ret.kind = "value" /\ ret.val

BeatResult(ret) == IF ret.kind = "throw" THEN "threw"
                   ELSE IF ret.val THEN "alive" ELSE "dead"

\* the server answers the probe with 200, with another status, or not
BeatAnswers(b) == GetHeartbeat(b) \cup {Answer(Response(503), b)}

BootStep == UNCHANGED <<ctx, env, mgr, fs, index, lastOp, used, chroma, inflight>>

\* one turn of the loop up to the timer: the condition, the probe
BootHeartbeat ==
    /\ boot.pc = "poll"
    /\ Waiting(boot.elapsed)
    /\ \E a \in BeatAnswers(backend), d \in 0 .. MaxBeat :
          LET ret == heartbeat(a.response)
          IN  boot' = [boot EXCEPT !.pc = IF BeatAlive(ret) THEN "tenant"
                                          ELSE "sleep",
                                   !.elapsed = @ + d,
                                   !.beats = @ + 1,
                                   !.last = BeatResult(ret)]
    /\ UNCHANGED backend
    /\ BootStep

\* await new Promise(r => setTimeout(r, 1000))
BootSleep ==
    /\ boot.pc = "sleep"
    /\ boot' = [boot EXCEPT !.pc = "poll", !.elapsed = @ + PollInterval]
    /\ UNCHANGED backend
    /\ BootStep

\* the loop condition turning false
BootGiveUp ==
    /\ boot.pc = "poll"
    /\ ~Waiting(boot.elapsed)
    /\ boot' = [boot EXCEPT !.pc = "tenant"]
    /\ UNCHANGED backend
    /\ BootStep

\* one awaited call of the try block: on a throw the catch logs and
\* initialize returns
Provision(pc, outcomes, next) ==
    /\ boot.pc = pc
    /\ \E o \in outcomes :
          /\ backend' = o.backend
          /\ boot' = IF o.ret.kind = "throw"
                     THEN [boot EXCEPT !.pc = "start", !.failed = TRUE]
                     ELSE [boot EXCEPT !.pc = next]
    /\ BootStep

BootTenant ==
    Provision("tenant",
              {[backend |-> a.backend, ret |-> ensureTenant(a.response)] :
                  a \in PostTenant(backend, chroma.tenant)},
              "database")

BootDatabase ==
    Provision("database",
              {[backend |-> a.backend, ret |-> ensureDatabase(a.response)] :
                  a \in PostDatabase(backend, chroma.tenant, chroma.database)},
              "collection")

BootCollection ==
    Provision("collection",
              {[backend |-> a.backend, ret |-> ensureCollection(a.response)] :
                  a \in PostCollection(backend, chroma.tenant, chroma.database,
                                       CollA)},
              "info")

BootInfo ==
    Provision("info",
              {[backend |-> a.backend, ret |-> getCollection(a.response)] :
                  a \in GetCollectionAnswers(backend, chroma.tenant,
                                             chroma.database, CollA)},
              "start")

\* .finally(startHttp)
StartHttp ==
    /\ boot.pc = "start"
    /\ boot' = [boot EXCEPT !.pc = "listening"]
    /\ UNCHANGED backend
    /\ BootStep

InitBoot ==
    /\ ctx = RequestContext_clear
    /\ env = Env(Undefined, Undefined, Undefined, Undefined)
    /\ mgr = [client |-> FALSE, collection |-> FALSE, initialized |-> FALSE]
    /\ fs = EmptyDisk
    /\ index = <<>>
    /\ lastOp = NoOp
    /\ used = [stores |-> 0, reloads |-> 0, faults |-> 0]
    /\ chroma \in {ChromaRest(opts) : opts \in RestOptions}
    /\ backend \in {FreshBackend,
                    [tenants |-> {chroma.tenant},
                     databases |-> {<<chroma.tenant, chroma.database>>},
                     collections |-> {<<chroma.tenant, chroma.database, CollA>>}]}
    /\ boot = [NotBooting EXCEPT !.pc = "poll"]
    /\ inflight = NoCalls

NextBoot ==
    \/ BootHeartbeat
    \/ BootSleep
    \/ BootGiveUp
    \/ BootTenant
    \/ BootDatabase
    \/ BootCollection
    \/ BootInfo
    \/ StartHttp

\* a pending timer fires and a pending request settles
SpecBoot == InitBoot /\ [][NextBoot]_vars /\ WF_vars(NextBoot)

----------------------------------------------------------------------------
(* Requests that overlap.  A request sets the RequestContext cells and     *)
(* calls its operation at once; the operation runs up to its next await,   *)
(* and between two awaits of one request the other request may run.  The   *)
(* awaits followed: this.initialize() (line 116), fs.readFile (191),       *)
(* fs.writeFile (199), collection.add (153), collection.query (221).       *)

IdA == [user |-> U1, team |-> T1]
IdB == [user |-> U3, team |-> T2]
Identities == {IdA, IdB}

RaceMemories ==
    {Memory(S1, 1, MsgDocker, <<>>, Undefined),
     Memory(S1, 2, MsgOther, <<TagApi>>, STR_team)}

\* RequestContext.userId() and teamId() with cells kept per request
Cells_perRequest(c, who) == who

\* RequestContext.userId() and teamId(): the module's cells, whoever asks
Cells(c, who) == c

\* lines 119-123 and 184-187: the identity of the record and its file
Resolved(call, cell, e) ==
    LET c == Cells(cell, call.who)
        memory == call.memory
        userId == Or(Or(Or(c.user, e.MCP_USER_ID), memory.userId), STR_unknown_user)
        teamId == Or(Or(Or(c.team, e.MCP_TEAM_ID), memory.teamId), STR_default_team)
        enriched == [memory EXCEPT !.userId = userId, !.teamId = teamId,
                                   !.visibility = Or(memory.visibility, STR_team)]
    IN  [call EXCEPT !.pc = "read", !.seen = c, !.memory = enriched,
                     !.file = StoreSessionFile(c, e, enriched)]

\* lines 189-195: what the call takes the file to hold
ReadSession(f, file) ==
    IF file \in DOMAIN f.files /\ f.files[file].kind = "array"
    THEN f.files[file].recs ELSE <<>>

\* writeFile of the file as it is now plus the record
WriteSession_merging(f, call) ==
    [f EXCEPT !.files =
        [p \in (DOMAIN f.files) \cup {call.file} |->
            IF p = call.file
            THEN ArrayFile(Append(ReadSession(f, call.file),
                                  JsonObject(call.memory)))
            ELSE f.files[p]]]

\* lines 197-199: push onto what was read, and writeFile
WriteSession(f, call) ==
    [f EXCEPT !.files =
        [p \in (DOMAIN f.files) \cup {call.file} |->
            IF p = call.file
            THEN ArrayFile(Append(call.data, JsonObject(call.memory)))
            ELSE f.files[p]]]

RaceStep(r, call) ==
    /\ inflight' = [inflight EXCEPT ![r] = call]
    /\ UNCHANGED <<env, lastOp, used, chroma, backend, boot>>

\* RequestContext.set(...); storeConversation(memory), up to its first await
RaceStore(r, who, memory) ==
    /\ inflight[r].pc = "idle"
    /\ ctx' = RequestContext_set(who.user, who.team)
    /\ LET call == Call("store", "init", who, memory)
       IN  RaceStep(r, IF mgr.initialized
                       THEN Resolved(call, RequestContext_set(who.user, who.team), env)
                       ELSE call)
    /\ UNCHANGED <<mgr, fs, index>>

\* await this.initialize() returns, and the call resolves its identity
RaceStoreResolve(r, outcome) ==
    /\ inflight[r].op = "store"
    /\ inflight[r].pc = "init"
    /\ mgr' = initialize(mgr, outcome)
    /\ RaceStep(r, Resolved(inflight[r], ctx, env))
    /\ UNCHANGED <<ctx, fs, index>>

\* await fs.readFile(sessionFile)
RaceStoreRead(r) ==
    /\ inflight[r].pc = "read"
    /\ RaceStep(r, [inflight[r] EXCEPT !.pc = "write",
                                       !.data = ReadSession(fs, inflight[r].file)])
    /\ UNCHANGED <<ctx, mgr, fs, index>>

\* await fs.writeFile(sessionFile, ...)
RaceStoreWrite(r) ==
    /\ inflight[r].pc = "write"
    /\ fs' = WriteSession(fs, inflight[r])
    /\ RaceStep(r, [inflight[r] EXCEPT !.pc = "add"])
    /\ UNCHANGED <<ctx, mgr, index>>

\* the rest of storeConversation: collection.add where it is made
RaceStoreAdd(r) ==
    /\ inflight[r].pc = "add"
    /\ LET memory == inflight[r].memory
       IN  index' = IF (memory.visibility = STR_private /\ jsonOnlyPrivate(env))
                       \/ ~mgr.client \/ ~mgr.collection
                    THEN index
                    ELSE Append(index, StoreAddCall(env, memory, memory.userId,
                                                    memory.teamId, memory.visibility))
    /\ RaceStep(r, [inflight[r] EXCEPT !.pc = "done", !.ret = TRUE])
    /\ UNCHANGED <<ctx, mgr, fs>>

\* what a search that has reached searchJsonMemories returns
Fallen(call, c, resp, listing) ==
    LET memory == call.memory
        s == searchRelevantMemories(mgr, fs, c, env, memory.userMessage,
                                    memory.sessionId, {}, resp, listing)
    IN  [call EXCEPT !.pc = "done", !.seen = c, !.path = s.path,
                     !.found = s.ret.val,
                     !.file = IF s.path = "json" THEN ActiveUserDir(c, env)
                              ELSE <<>>]

\* RequestContext.set(...); searchRelevantMemories(query, sessionId): it
\* awaits collection.query when there is a collection, and scans otherwise
RaceSearch(r, who, sessionId) ==
    /\ inflight[r].pc = "idle"
    /\ ctx' = RequestContext_set(who.user, who.team)
    /\ LET call == [Call("search", "query", who,
                             Memory(sessionId, 0, MsgQuery, <<>>, Undefined))
                           EXCEPT !.seen = RequestContext_set(who.user, who.team)]
       IN  IF mgr.collection /\ mgr.client
           THEN RaceStep(r, call)
           ELSE \E listing \in Readdirs(fs, Cells(call.seen, who), env, sessionId) :
                   RaceStep(r, Fallen(call, Cells(call.seen, who), NoResponse,
                                      listing))
    /\ UNCHANGED <<mgr, fs, index>>

\* await this.collection.query(...) settles
RaceSearchAnswer(r) ==
    /\ inflight[r].op = "search"
    /\ inflight[r].pc = "query"
    /\ LET sessionId == inflight[r].memory.sessionId
           c == Cells(ctx, inflight[r].who)
       IN  \E resp \in Answers(mgr, index, SearchWhere(c, env, sessionId),
                               DefaultLimit),
              listing \in Readdirs(fs, c, env, sessionId) :
                  RaceStep(r, Fallen(inflight[r], c, resp, listing))
    /\ UNCHANGED <<ctx, mgr, fs, index>>

InitRace ==
    /\ ctx = RequestContext_clear
    /\ env = Env(Undefined, Undefined, Undefined, Undefined)
    /\ mgr \in {[client |-> TRUE, collection |-> FALSE, initialized |-> FALSE],
                [client |-> TRUE, collection |-> TRUE, initialized |-> TRUE],
                [client |-> FALSE, collection |-> FALSE, initialized |-> TRUE]}
    /\ fs = EmptyDisk
    /\ index = <<>>
    /\ lastOp = NoOp
    /\ used = [stores |-> 0, reloads |-> 0, faults |-> 0]
    /\ chroma = ChromaRest(NoOptions)
    /\ backend = FreshBackend
    /\ boot = NotBooting
    /\ inflight = NoCalls

NextRace ==
    \E r \in Requests :
        \/ \E who \in Identities, memory \in RaceMemories : RaceStore(r, who, memory)
        \/ \E outcome \in {"existing", "unreachable"} : RaceStoreResolve(r, outcome)
        \/ RaceStoreRead(r)
        \/ RaceStoreWrite(r)
        \/ RaceStoreAdd(r)
        \/ \E who \in Identities, sessionId \in {S1, Undefined} :
              RaceSearch(r, who, sessionId)
        \/ RaceSearchAnswer(r)

SpecRace == InitRace /\ [][NextRace]_vars

----------------------------------------------------------------------------
(* Vocabulary of the properties *)

IsPrefix(a, b) == Len(a) <= Len(b) /\ SubSeq(b, 1, Len(a)) = a

\* the records of a session file as a reader gets them, property by property
FileRecords(f, p) ==
    IF p \in DOMAIN f.files /\ f.files[p].kind = "array"
    THEN [i \in 1..Len(f.files[p].recs) |-> Revive(f.files[p].recs[i])]
    ELSE <<>>

\* the owner of a record stored now, and the record as it is to be persisted
OwnerOf(memory) ==
    IF ~Falsy(ctx.user) THEN ctx.user
    ELSE IF ~Falsy(env.MCP_USER_ID) THEN env.MCP_USER_ID
    ELSE IF ~Falsy(memory.userId) THEN memory.userId
    ELSE STR_unknown_user

TeamOf(memory) ==
    IF ~Falsy(ctx.team) THEN ctx.team
    ELSE IF ~Falsy(env.MCP_TEAM_ID) THEN env.MCP_TEAM_ID
    ELSE IF ~Falsy(memory.teamId) THEN memory.teamId
    ELSE STR_default_team

Persisted(memory) ==
    [memory EXCEPT !.userId = OwnerOf(memory), !.teamId = TeamOf(memory),
                   !.visibility = IF Falsy(memory.visibility) THEN STR_team
                                  ELSE memory.visibility]

OwnerFile(memory) == <<Sanitize(OwnerOf(memory)), memory.sessionId \o JsonExt>>

InOwnerFile(memory) ==
    \E i \in DOMAIN FileRecords(fs, OwnerFile(memory)) :
        FileRecords(fs, OwnerFile(memory))[i] = Persisted(memory)

InIndex(memory) ==
    \E i \in DOMAIN index :
        index[i].id = RecordId(memory) /\ index[i].document = Document(memory)

Happened(op, name, ok) ==
    \E i \in DOMAIN op.events : op.events[i].e = name /\ op.events[i].ok = ok

JsonEnabled == ~disableJson(env)

----------------------------------------------------------------------------
(* C1.  Appends are order-preserving.  A store whose disk write succeeds   *)
(* leaves the owner's session file holding what it held before (nothing,   *)
(* when the file was missing or unparsable) followed by the record exactly *)
(* as persisted, and leaves every other file alone; and no store, failed   *)
(* or not, shortens or reorders a session file: the old contents are a     *)
(* prefix of the new.  So a run of stores into one session reads back      *)
(* every stored record, as written, in the order of the stores.            *)

C1_StoreStep == lastOp'.op = "store" /\ used'.stores = used.stores + 1

C1_AppendOnlyInOrder ==
    [][C1_StoreStep =>
         LET memory == lastOp'.args[1]
             p == OwnerFile(memory)
         IN  /\ \A q \in DOMAIN fs.files :
                   /\ q \in DOMAIN fs'.files
                   /\ IsPrefix(FileRecords(fs, q), FileRecords(fs', q))
             /\ Happened(lastOp', "json", TRUE) =>
                   /\ FileRecords(fs', p)
                        = Append(FileRecords(fs, p), Persisted(memory))
                   /\ \A q \in (DOMAIN fs'.files) \ {p} :
                         q \in DOMAIN fs.files /\ fs'.files[q] = fs.files[q]
    ]_vars

\* a second, different record has been appended to a session file
C1_Witness ==
    /\ lastOp.op = "store"
    /\ Happened(lastOp, "json", TRUE)
    /\ LET recs == FileRecords(fs, OwnerFile(lastOp.args[1]))
       IN  /\ Len(recs) = 2
           /\ recs[1] # recs[2]
           /\ recs[2] = Persisted(lastOp.args[1])

----------------------------------------------------------------------------
(* C2.  No silent loss: a store that returned true has its record in the   *)
(* owner's session file or in the vector index.                            *)

C2_NoSilentLoss ==
    (lastOp.op = "store" /\ lastOp.ret.kind = "value" /\ lastOp.ret.val = TRUE)
        => (InOwnerFile(lastOp.args[1]) \/ InIndex(lastOp.args[1]))

----------------------------------------------------------------------------
(* C3.  With JSON persistence not disabled a store writes the session file *)
(* first: the disk write is its first call and any collection.add comes    *)
(* after it; when the write succeeded the record is in the owner's file    *)
(* whatever the vector side did, and the call returns true even when       *)
(* collection.add threw.                                                   *)

C3_JsonBeforeVector ==
    (lastOp.op = "store" /\ JsonEnabled) =>
        /\ Len(lastOp.events) >= 1
        /\ lastOp.events[1].e = "json"
        /\ \A i \in DOMAIN lastOp.events : lastOp.events[i].e = "add" => i > 1
        /\ lastOp.events[1].ok => InOwnerFile(lastOp.args[1])
        /\ lastOp.ret = [kind |-> "value", val |-> TRUE]

\* collection.add threw after the record was written
C3_Witness ==
    /\ lastOp.op = "store"
    /\ JsonEnabled
    /\ Happened(lastOp, "json", TRUE)
    /\ Happened(lastOp, "add", FALSE)
    /\ InOwnerFile(lastOp.args[1])
    /\ lastOp.ret.val = TRUE

----------------------------------------------------------------------------
(* C4.  A store whose disk write failed returns false, without raising,    *)
(* and the store tool reports the memory as not saved.                     *)

C4_WriteFailureReported ==
    (lastOp.op = "store" /\ Happened(lastOp, "json", FALSE)) =>
        /\ lastOp.ret.kind = "value"
        /\ lastOp.ret.val = FALSE
        /\ StoreToolReport(lastOp.ret.val) = "failed"

----------------------------------------------------------------------------
(* C9.  With private records JSON-only, the vector index never holds an    *)
(* entry made from a private record.                                       *)

C9_NoPrivateInIndex ==
    jsonOnlyPrivate(env) =>
        \A i \in DOMAIN index : index[i].origin.visibility # STR_private

----------------------------------------------------------------------------
(* Vocabulary of the search properties *)

SearchOp == lastOp.op = "search"

Available == mgr.collection /\ mgr.client

\* the file names the keyword scan of the last search goes through
ScannedNames ==
    IF ~Falsy(lastOp.args[2]) THEN {lastOp.args[2] \o JsonExt}
    ELSE {lastOp.args[4][i] : i \in DOMAIN lastOp.args[4]}

\* the records of the active user's scanned session files, as <<path, i>>
ScannedRecords ==
    {pi \in UNION {{<<p, i>> : i \in 1..Len(fs.files[p].recs)} :
                      p \in {q \in DOMAIN fs.files : fs.files[q].kind = "array"}} :
        /\ Len(pi[1]) = Len(ActiveUserDir(ctx, env)) + 1
        /\ SubSeq(pi[1], 1, Len(pi[1]) - 1) = ActiveUserDir(ctx, env)
        /\ pi[1][Len(pi[1])] \in ScannedNames}

RecordAt(pi) == Revive(fs.files[pi[1]].recs[pi[2]])

\* the lower-cased concatenation of userMessage, assistantResponse and tags
\* contains the lower-cased query
Contains(memory, q) ==
    Includes(ToLowerCase(memory.userMessage \o <<" ">> \o memory.assistantResponse
                         \o <<" ">> \o Join(memory.tags, <<" ">>)),
             ToLowerCase(q))

MatchingRecords == {pi \in ScannedRecords : Contains(RecordAt(pi), lastOp.args[1])}

\* the result the keyword scan gives for a record
ResultOf(memory) ==
    [content |-> STR_User \o memory.userMessage \o STR_Assistant
                 \o memory.assistantResponse,
     metadata |-> [sessionId |-> memory.sessionId, timestamp |-> memory.timestamp,
                   tags |-> memory.tags, context |-> memory.context],
     distance |-> DummyDistance]

SearchLimit == Given(lastOp.args[3], DefaultLimit)

WellFormed(resp) ==
    /\ resp.kind = "ok"
    /\ Len(resp.metadatas) = Len(resp.documents)
    /\ Len(resp.distances) = Len(resp.documents)

----------------------------------------------------------------------------
(* C5.  searchRelevantMemories never raises: whatever collection.query     *)
(* did (not asked, threw, answered nothing, answered a malformed body) and *)
(* whatever the user's directory holds (nothing, corrupt files), the call  *)
(* returns a sequence, and the sequence is empty when the query brought no *)
(* document and no scanned record contains the query.                      *)

C5_SearchNeverRaises ==
    SearchOp =>
        /\ lastOp.ret.kind = "value"
        /\ DOMAIN lastOp.ret.val = 1..Len(lastOp.ret.val)
        /\ (Len(lastOp.resp.documents) = 0 /\ MatchingRecords = {})
              => lastOp.ret.val = <<>>

\* the query threw, the scan met a corrupt file, and nothing was found
C5_Witness ==
    /\ SearchOp
    /\ Happened(lastOp, "query", FALSE)
    /\ \E n \in ScannedNames :
          /\ Append(ActiveUserDir(ctx, env), n) \in DOMAIN fs.files
          /\ fs.files[Append(ActiveUserDir(ctx, env), n)].kind = "corrupt"
    /\ lastOp.ret = [kind |-> "value", val |-> <<>>]

----------------------------------------------------------------------------
(* C6.  As stated: the keyword fallback runs exactly when the backend is   *)
(* unavailable, the query throws, or the query returns zero documents.     *)

C6_FallbackExactlyWhen ==
    SearchOp =>
        (Happened(lastOp, "scan", TRUE)
            <=> (\/ ~Available
                 \/ lastOp.resp.kind = "throw"
                 \/ Len(lastOp.resp.documents) = 0))

(* C6, amended.  The keyword fallback runs exactly when the backend is     *)
(* unavailable, the query throws, the query returns zero documents, or     *)
(* the answer is malformed so that building the results throws; otherwise  *)
(* the log is not scanned and the results are the answer's documents, one  *)
(* per document in the answer's order (ascending distance), each with the  *)
(* answer's metadata and distance.                                         *)

C6_FallbackOrVector ==
    SearchOp =>
        /\ Happened(lastOp, "scan", TRUE)
              <=> (\/ ~Available
                   \/ lastOp.resp.kind = "throw"
                   \/ Len(lastOp.resp.documents) = 0
                   \/ ~WellFormed(lastOp.resp))
        /\ ~Happened(lastOp, "scan", TRUE) =>
              /\ Len(lastOp.ret.val) = Len(lastOp.resp.documents)
              /\ \A i \in DOMAIN lastOp.ret.val :
                    /\ lastOp.ret.val[i].content = lastOp.resp.documents[i]
                    /\ lastOp.ret.val[i].metadata = lastOp.resp.metadatas[i]
                    /\ lastOp.ret.val[i].distance = lastOp.resp.distances[i]
                    /\ i > 1 => lastOp.ret.val[i - 1].distance
                                   <= lastOp.ret.val[i].distance

\* two documents came back from the query and were returned in its order
C6_Witness ==
    /\ SearchOp
    /\ Available
    /\ WellFormed(lastOp.resp)
    /\ Len(lastOp.resp.documents) = 2
    /\ Len(lastOp.ret.val) = 2
    /\ lastOp.ret.val[1] # lastOp.ret.val[2]
    /\ ~Happened(lastOp, "scan", TRUE)

----------------------------------------------------------------------------
(* C7.  With the backend unavailable the results are the matching records  *)
(* of the active user's scanned session files, up to the limit: every      *)
(* result is the result of a scanned record containing the query, all of   *)
(* them are returned when they fit the limit (and `limit` of them          *)
(* otherwise), and every result carries the placeholder distance.          *)

C7_FallbackResults ==
    (SearchOp /\ ~Available) =>
        /\ Len(lastOp.ret.val) = Min(SearchLimit, Cardinality(MatchingRecords))
        /\ \A i \in DOMAIN lastOp.ret.val :
              /\ lastOp.ret.val[i].distance = DummyDistance
              /\ \E pi \in MatchingRecords :
                    lastOp.ret.val[i] = ResultOf(RecordAt(pi))
        /\ Cardinality(MatchingRecords) <= SearchLimit =>
              \A pi \in MatchingRecords :
                  Cardinality({i \in DOMAIN lastOp.ret.val :
                                  lastOp.ret.val[i] = ResultOf(RecordAt(pi))})
                    = Cardinality({pj \in MatchingRecords :
                                      ResultOf(RecordAt(pj)) = ResultOf(RecordAt(pi))})

\* a record whose userMessage contains the query in another case was found
\* by the scan, next to a scanned record that does not contain it
C7_Witness ==
    /\ SearchOp
    /\ ~Available
    /\ lastOp.args[1] = MsgQuery
    /\ \E i \in DOMAIN lastOp.ret.val :
          /\ lastOp.ret.val[i].distance = DummyDistance
          /\ \E pi \in MatchingRecords :
                /\ lastOp.ret.val[i] = ResultOf(RecordAt(pi))
                /\ Includes(RecordAt(pi).userMessage, MsgQuery)
    /\ ScannedRecords # MatchingRecords

----------------------------------------------------------------------------
(* C8.  Every query sent to the collection filters on visibility in        *)
(* {team, public}, with or without a sessionId, and no result that came    *)
(* back from the collection is an entry made from a private record.        *)

C8_VectorPathNoPrivate ==
    lastOp.op \in {"search", "prompt"} =>
        /\ Available => Len(lastOp.queries) = 1
        /\ \A k \in DOMAIN lastOp.queries :
              /\ "visibility" \in DOMAIN lastOp.queries[k]
              /\ lastOp.queries[k].visibility = {STR_team, STR_public}
        /\ (SearchOp /\ lastOp.path = "vector") =>
              \A i \in DOMAIN lastOp.ret.val, j \in DOMAIN index :
                  (/\ index[j].document = lastOp.ret.val[i].content
                   /\ index[j].metadata = lastOp.ret.val[i].metadata)
                     => index[j].origin.visibility # STR_private

\* results came back from an index that holds a private record of the
\* session asked for
C8_Witness ==
    /\ SearchOp
    /\ lastOp.path = "vector"
    /\ Len(lastOp.ret.val) > 0
    /\ \E j \in DOMAIN index :
          /\ index[j].origin.visibility = STR_private
          /\ Field(index[j].metadata, "visibility") = STR_private
          /\ ~Falsy(lastOp.args[2])
              => Field(index[j].metadata, "sessionId") = lastOp.args[2]

----------------------------------------------------------------------------
(* C10.  buildContextPrompt returns a string no longer than maxLength      *)
(* (2000 when omitted).                                                    *)

C10_PromptWithinMaxLength ==
    lastOp.op = "prompt" =>
        Len(lastOp.ret.val) <= Given(lastOp.args[3], DefaultMaxLength)

----------------------------------------------------------------------------
(* Vocabulary of the session properties *)

\* the identity the reading operations resolve
ActiveUser ==
    IF ~Falsy(ctx.user) THEN ctx.user
    ELSE IF ~Falsy(env.MCP_USER_ID) THEN env.MCP_USER_ID
    ELSE STR_unknown_user

\* the session file a store of the active user writes
ActiveSessionFile(s) == <<Sanitize(ActiveUser), s \o JsonExt>>

\* the active user has stored into session s: the session file holds a
\* record that carries the user's id
StoredInto(f, s) ==
    \E i \in DOMAIN FileRecords(f, ActiveSessionFile(s)) :
        FileRecords(f, ActiveSessionFile(s))[i].userId = ActiveUser

Range(seq) == {seq[i] : i \in DOMAIN seq}

----------------------------------------------------------------------------
(* C11.  After deleteSession(s), for a session s the active user has       *)
(* stored into (and with fs.unlink not failing on a file it finds), the    *)
(* session file is gone and listSessions() does not include s.             *)

C11_DeletedSessionGone ==
    [][(/\ lastOp'.op = "delete"
        /\ lastOp'.args[2]
        /\ StoredInto(fs, lastOp'.args[1]))
          => /\ ActiveSessionFile(lastOp'.args[1]) \notin DOMAIN fs'.files
             /\ \A listing \in Listings(fs', ActiveUserDir(ctx', env')) :
                   lastOp'.args[1]
                       \notin Range(listSessions(fs', ctx', env', listing))
    ]_vars

----------------------------------------------------------------------------
(* C12.  After a single store of a team-visibility record into an          *)
(* otherwise empty session s (the record is the only one of session s in   *)
(* the durable log, it is in the active user's session file, and every     *)
(* index entry of session s was made from it), search(q, s) with q a       *)
(* substring of the record's userMessage returns exactly one result, whose *)
(* content contains that userMessage.                                      *)

\* the records of session s anywhere in the durable log, as <<path, i>>
SessionRecords(s) ==
    {pi \in UNION {{<<p, i>> : i \in DOMAIN FileRecords(fs, p)} :
                      p \in DOMAIN fs.files} :
        FileRecords(fs, pi[1])[pi[2]].sessionId = s}

\* memory is the one record of session s, stored by the active user with
\* team visibility
OnlyRecordOf(s, memory) ==
    /\ SessionRecords(s) = {<<ActiveSessionFile(s), 1>>}
    /\ FileRecords(fs, ActiveSessionFile(s)) = <<memory>>
    /\ memory.userId = ActiveUser
    /\ memory.visibility = STR_team
    /\ \A j \in DOMAIN index :
          Field(index[j].metadata, "sessionId") = s
              => /\ index[j].id = RecordId(memory)
                 /\ index[j].document = Document(memory)

C12_SingleStoreFound ==
    (SearchOp /\ ~Falsy(lastOp.args[2])) =>
        \A p \in DOMAIN fs.files : \A i \in DOMAIN FileRecords(fs, p) :
            LET memory == FileRecords(fs, p)[i]
            IN  (/\ OnlyRecordOf(lastOp.args[2], memory)
                 /\ Includes(memory.userMessage, lastOp.args[1]))
                   => /\ Len(lastOp.ret.val) = 1
                      /\ Includes(lastOp.ret.val[1].content, memory.userMessage)

----------------------------------------------------------------------------
(* C13.  Bulk reload run twice on the same durable log: both runs leave    *)
(* every session file as it was; the second run reports the loaded count   *)
(* of the first and adds, for every record key of the per-user session     *)
(* files, as many index entries as the first run did, one per record: the  *)
(* index has received each key twice.                                      *)

\* the records of the session files of the per-user directories
ReloadableRecords(f) ==
    UNION {{<<p, i>> : i \in DOMAIN FileRecords(f, p)} :
              p \in {q \in DOMAIN f.files : Len(q) = 2 /\ EndsWith(q[2], JsonExt)}}

KeyOf(f, pi) == RecordId(FileRecords(f, pi[1])[pi[2]])

\* the entries with key id among ix[from..to]
Added(ix, from, to, id) == Cardinality({j \in from..to : ix[j].id = id})

ReloadStep == lastOp'.op = "reload" /\ used'.reloads = used.reloads + 1

C13_ReloadTwice ==
    [][ReloadStep =>
          /\ fs' = fs
          /\ (lastOp.op = "reload" /\ lastOp.args[2] = 0) =>
                LET n == lastOp.ret.val.loaded
                IN  /\ lastOp'.ret.val.loaded = n
                    /\ Len(index') = Len(index) + n
                    /\ mgr.collection => n = Cardinality(ReloadableRecords(fs))
                    /\ mgr.collection =>
                          \A pi \in ReloadableRecords(fs) :
                              LET here == Cardinality(
                                      {pj \in ReloadableRecords(fs) :
                                          KeyOf(fs, pj) = KeyOf(fs, pi)})
                              IN  /\ Added(index, Len(index) - n + 1, Len(index),
                                           KeyOf(fs, pi)) = here
                                  /\ Added(index', Len(index) + 1, Len(index'),
                                           KeyOf(fs, pi)) = here
    ]_vars

\* two reloads in a row of a log of two records with different keys
C13_Witness ==
    /\ lastOp.op = "reload"
    /\ used.reloads = MaxReloads + MaxRepeats
    /\ lastOp.ret.val.loaded = 2
    /\ Cardinality({KeyOf(fs, pi) : pi \in ReloadableRecords(fs)}) = 2
    /\ \A pi \in ReloadableRecords(fs) :
          Added(index, 1, Len(index), KeyOf(fs, pi)) >= 2

----------------------------------------------------------------------------
(* C14.  A store resolves the owning userId as the first non-empty of the  *)
(* context user, MCP_USER_ID, the record's userId and 'unknown-user', and  *)
(* the teamId likewise with 'default-team'.  When its disk write succeeds  *)
(* the only file it changes is the session file in the directory of the    *)
(* resolved user, and the record appended there carries the resolved       *)
(* userId and teamId; when its collection.add succeeds the metadata of the *)
(* new index entry carries them too.                                       *)

Last(seq) == seq[Len(seq)]

C14_OwnershipResolution ==
    [][C1_StoreStep =>
         LET memory == lastOp'.args[1]
             userId == OwnerOf(memory)
             teamId == TeamOf(memory)
             dir == <<Sanitize(userId)>>
         IN  /\ Happened(lastOp', "json", TRUE) =>
                   /\ {p \in DOMAIN fs'.files :
                          p \notin DOMAIN fs.files \/ fs'.files[p] # fs.files[p]}
                        = {dir \o <<memory.sessionId \o JsonExt>>}
                   /\ LET written == Last(FileRecords(fs',
                                  dir \o <<memory.sessionId \o JsonExt>>))
                      IN  /\ written.userId = userId
                          /\ written.teamId = teamId
                          /\ written.userMessage = memory.userMessage
             /\ Happened(lastOp', "add", TRUE) =>
                   /\ Len(index') = Len(index) + 1
                   /\ Last(index').id = RecordId(memory)
                   /\ Field(Last(index').metadata, "userId") = userId
                   /\ Field(Last(index').metadata, "teamId") = teamId
    ]_vars

\* context, environment and record each name a user, and the context's won
C14_Witness ==
    /\ lastOp.op = "store"
    /\ Happened(lastOp, "json", TRUE)
    /\ Happened(lastOp, "add", TRUE)
    /\ lastOp.args[1].userId = U3
    /\ ctx.user = U2
    /\ env.MCP_USER_ID = U1
    /\ Last(FileRecords(fs, <<Sanitize(U2),
                              lastOp.args[1].sessionId \o JsonExt>>)).userId = U2
    /\ Field(Last(index).metadata, "userId") = U2
    /\ Field(Last(index).metadata, "teamId") = T1

----------------------------------------------------------------------------
(* C15.  When the client could not be constructed, or the collection can   *)
(* neither be obtained nor created, initialize ends with the manager in    *)
(* JSON-only mode.  From then on the mode stays: no operation, a later     *)
(* initialize included, changes the manager, the index receives nothing,   *)
(* and no store, search or prompt calls collection.add or                  *)
(* collection.query.                                                       *)

JsonOnly(m) == m.initialized /\ ~(m.client /\ m.collection)

InitFails(m, outcome) ==
    ~m.initialized /\ (~m.client \/ outcome \in {"unreachable", "mkdir_fails"})

C15_JsonOnlyModeIsFinal ==
    [][/\ \A outcome \in InitOutcomes :
             InitFails(mgr, outcome) => JsonOnly(initialize(mgr, outcome))
       /\ JsonOnly(mgr) =>
             /\ mgr' = mgr
             /\ index' = index
             /\ lastOp'.queries = <<>>
             /\ \A i \in DOMAIN lastOp'.events :
                   lastOp'.events[i].e \notin {"add", "query"}
    ]_vars

\* in JSON-only mode two team-visible records were stored, on disk only
C15_Witness ==
    /\ JsonOnly(mgr)
    /\ lastOp.op = "store"
    /\ used.stores = 2
    /\ lastOp.args[1].visibility = STR_team
    /\ InOwnerFile(lastOp.args[1])
    /\ index = <<>>

----------------------------------------------------------------------------
(* Tool calls *)

\* the step is a call of the tool `name`
ToolStep(name) ==
    /\ lastOp'.op = name
    /\ name = "store_conversation_memory" => used'.stores = used.stores + 1

\* the request of the step carries no `arguments`, or they lack a property
\* the tool's schema requires
OmitsRequired ==
    \/ ~lastOp'.args[1]
    \/ \E k \in Required(lastOp'.op) : k \notin DOMAIN lastOp'.args[2]

\* C16: a memory tool call that omits a required argument is rejected with
\* an error and changes nothing: no file is written or removed, and no
\* call reaches the vector backend
C16_MissingArgumentRejected ==
    [][\A name \in {"store_conversation_memory", "get_session_context",
                    "delete_memory_session", "search_conversation_memory",
                    "build_context_prompt"} :
          (ToolStep(name) /\ OmitsRequired) =>
              /\ lastOp'.ret.val.isError
              /\ fs' = fs
              /\ index' = index
              /\ lastOp'.events = <<>>
              /\ lastOp'.queries = <<>>]_vars

\* C17: every advertised memory tool is routed by the call handler: a call
\* of a name in memoryTools never ends in the 'Unknown tool' error
C17_AdvertisedToolsRouted ==
    lastOp.op \in memoryTools =>
        ~(lastOp.ret.val.isError /\ lastOp.ret.val.text[1] = "Unknown tool")

\* C18: a record stored through store_conversation_memory with visibility
\* 'private' is persisted as private and, under the default
\* private-JSON-only setting, is not sent to the vector index
C18_PrivateToolStore ==
    [][(/\ ToolStep("store_conversation_memory")
        /\ lastOp'.args[1]
        /\ Arg(lastOp'.args[2], "visibility") = STR_private) =>
          /\ \A p \in DOMAIN fs'.files :
                (p \notin DOMAIN fs.files \/ fs'.files[p] # fs.files[p]) =>
                    Last(fs'.files[p].recs).visibility = STR_private
          /\ jsonOnlyPrivate(env) => index' = index]_vars

----------------------------------------------------------------------------
(* Deleting what is not there *)

\* the path deleteSession unlinks
DeletedPath(sessionId) == PathJoin(memoryDir, Str(sessionId) \o JsonExt)

\* C19: deleteSession for a session whose file is absent does not raise: it
\* returns false and leaves the durable log and the vector index unchanged
C19_DeleteAbsent ==
    [][(/\ lastOp'.op = "delete"
        /\ ~IsFile(fs, DeletedPath(lastOp'.args[1]))) =>
          /\ lastOp'.ret.kind = "value"
          /\ lastOp'.ret.val = FALSE
          /\ fs' = fs
          /\ index' = index]_vars

\* fs.unlink would have succeeded, and yet the call returned false: the
\* file was absent, with other files on the disk and entries in the index
C19_Witness ==
    /\ lastOp.op = "delete"
    /\ lastOp.args[2]
    /\ lastOp.ret.val = FALSE
    /\ DOMAIN fs.files # {}
    /\ Len(index) > 0

----------------------------------------------------------------------------
(* Provisioning *)

EnsureOps == {"ensureTenant", "ensureDatabase", "ensureCollection"}

\* C20: the provisioning steps are idempotent: a call answered with 409
\* ('already exists') succeeds and leaves the backend as it was; and
\* ensureCollection succeeds exactly when the status is 200, 201 or 409,
\* raising for every other status
C20_IdempotentProvisioning ==
    [][\A op \in EnsureOps :
          lastOp'.op = op =>
            LET r == lastOp'.args[2]
            IN  /\ (r.kind = "response" /\ r.status = 409) =>
                      /\ lastOp'.ret.kind = "value"
                      /\ backend' = backend
                /\ (op = "ensureCollection" /\ r.kind = "response") =>
                      (lastOp'.ret.kind = "value"
                          <=> r.status \in {200, 201, 409})]_vars

\* a collection that exists was ensured again, and the call succeeded
C20_Witness ==
    /\ lastOp.op = "ensureCollection"
    /\ lastOp.args[2] = Response(409)
    /\ lastOp.ret.kind = "value"
    /\ <<chroma.tenant, chroma.database, lastOp.args[1]>> \in backend.collections

----------------------------------------------------------------------------
(* Startup *)

\* C21: the startup heartbeat wait terminates and the server then listens,
\* whatever the heartbeats and the provisioning calls did; the wait ends at
\* the first heartbeat that returns true, a heartbeat that throws or
\* returns false is followed by the one-second timer, there is at most one
\* heartbeat per second of waiting, and without a true heartbeat the wait
\* ends once 60 seconds have passed
C21_StartupTerminates ==
    /\ <>(boot.pc = "listening")
    /\ [](boot.beats <= boot.elapsed + 1)
    /\ [](boot.pc \notin {"poll", "sleep"} /\ boot.last # "alive" =>
             /\ boot.elapsed >= WaitLimit
             /\ boot.elapsed < WaitLimit + PollInterval + MaxBeat)
    /\ [][/\ boot.last = "alive" => boot'.beats = boot.beats
          /\ boot'.beats # boot.beats =>
                 boot'.pc = IF boot'.last = "alive" THEN "tenant" ELSE "sleep"
         ]_vars

\* listening after a wait in which a heartbeat threw and none succeeded,
\* and after a provisioning call failed
C21_Witness ==
    /\ boot.pc = "listening"
    /\ boot.last = "threw"
    /\ boot.failed

----------------------------------------------------------------------------
(* Overlapping requests *)

\* the request has written its session file
HasWritten(r) == inflight[r].op = "store" /\ inflight[r].pc \in {"add", "done"}

\* both requests appended to the same session file, and both read it before
\* either wrote it: they read the same array
Interleaved(r1, r2) ==
    /\ r1 # r2
    /\ HasWritten(r1) /\ HasWritten(r2)
    /\ inflight[r1].file = inflight[r2].file
    /\ inflight[r1].data = inflight[r2].data

\* C22: when the read-modify-write steps of two storeConversation calls on
\* the same user and session interleave, the file ends up with what both
\* read plus only one of the two records, and both calls return true
C22_LostUpdate ==
    \A r1, r2 \in Requests :
        Interleaved(r1, r2) =>
            /\ fs.files[inflight[r1].file].recs
                  \in {Append(inflight[r1].data, JsonObject(inflight[r].memory)) :
                          r \in {r1, r2}}
            /\ \A r \in {r1, r2} : inflight[r].pc = "done" => inflight[r].ret

\* two different records were stored, both calls returned true, and the
\* file holds one record
C22_Witness ==
    /\ Interleaved(1, 2)
    /\ inflight[1].memory.timestamp # inflight[2].memory.timestamp
    /\ inflight[1].pc = "done" /\ inflight[1].ret
    /\ inflight[2].pc = "done" /\ inflight[2].ret
    /\ Len(fs.files[inflight[1].file].recs) = 1

\* the step in which request r reads the cells: a store resolving its
\* identity, a search reaching searchJsonMemories
Resolves(r) ==
    /\ inflight[r].pc \in {"idle", "init", "query"}
    /\ \/ inflight'[r].op = "store" /\ inflight'[r].pc = "read"
       \/ inflight'[r].op = "search" /\ inflight'[r].path = "json"

\* C23: the Request Scope Context is one process-wide cell: an operation
\* resolves whatever identity the cell holds at its resolution point, be it
\* its own request's or the one another request has set since; a store
\* writes into that identity's directory and a fallback search scans that
\* identity's directory
C23_SharedContext ==
    [][\A r \in Requests :
          Resolves(r) =>
             /\ inflight'[r].seen = ctx'
             /\ inflight'[r].op = "store" =>
                   Parent(inflight'[r].file)
                       = PathJoin(memoryDir, Sanitize(ctx'.user))
             /\ inflight'[r].op = "search" =>
                   inflight'[r].file = PathJoin(memoryDir, ctx'.user)]_vars

\* a store of one request has landed in the directory of the other
\* request's user
C23_Witness ==
    \E r1, r2 \in Requests :
        /\ inflight[r1].op = "store" /\ inflight[r1].pc = "done"
        /\ inflight[r1].who # inflight[r2].who
        /\ inflight[r1].seen = inflight[r2].who
        /\ Parent(inflight[r1].file)
              = PathJoin(memoryDir, Sanitize(inflight[r2].who.user))
        /\ inflight[r1].file \in DOMAIN fs.files

----------------------------------------------------------------------------
(* The team filter *)

\* C24: the teamId filter of the vector query is the team of the active
\* Request Scope Context: with team T in the context the query is filtered
\* by teamId = T, and with no team active there is no teamId filter
C24_TeamFilterFromContext ==
    (lastOp.op = "search" /\ Len(lastOp.queries) > 0) =>
        LET where == lastOp.queries[1]
        IN  IF Falsy(ctx.team) THEN "teamId" \notin DOMAIN where
            ELSE "teamId" \in DOMAIN where /\ where.teamId = ctx.team

----------------------------------------------------------------------------
(* One directory per identity *)

\* C25: the directory storeConversation writes under the memory root is
\* the directory fallback search and listSessions read for the same
\* identity, so the session of a record just stored is in the user's list
C25_SameDirectory ==
    (lastOp.op = "store" /\ Happened(lastOp, "json", TRUE)) =>
        /\ Parent(OwnerFile(lastOp.args[1])) = ActiveUserDir(ctx, env)
        /\ \A listing \in Listings(fs, ActiveUserDir(ctx, env)) :
              lastOp.args[1].sessionId
                  \in Range(listSessions(fs, ctx, env, listing))

----------------------------------------------------------------------------
(* What bulk reload sends *)

\* C26: bulk reload indexes each record as the store operation would: the
\* entry has the record's id and document and its metadata carries the
\* record's userId, teamId and visibility, so that the entry of a team or
\* public record passes the search filter visibility in {team, public}
C26_ReloadIndexesAsStore ==
    [][ReloadStep =>
          \A j \in (Len(index) + 1) .. Len(index') :
              \E pi \in ReloadableRecords(fs) :
                  LET memory == FileRecords(fs, pi[1])[pi[2]]
                      meta == index'[j].metadata
                  IN  /\ index'[j].id = RecordId(memory)
                      /\ index'[j].document = Document(memory)
                      /\ Field(meta, "userId") = memory.userId
                      /\ Field(meta, "teamId") = memory.teamId
                      /\ Field(meta, "visibility") = memory.visibility
                      /\ memory.visibility \in VisibleInSearch =>
                            Matches(meta, [visibility |-> VisibleInSearch])
    ]_vars

----------------------------------------------------------------------------
(* What bulk reload counts *)

\* the session files of the per-user directories that do not parse into an
\* array of records
Unparseable(f) ==
    {p \in ReloadFiles(f) : ~(IsFile(f, p) /\ f.files[p].kind = "array")}

\* the number of entries the step added to the index
AddedNow == Len(index') - Len(index)

\* the step is a reload in which a collection.add call threw
AddThrew ==
    lastOp'.args[2] \in 1 .. Cardinality(ReloadableRecords(fs))

\* C27 as stated: reload returns loaded = the number of records added and
\* errors = the number of files that failed to parse; every record of
\* every parseable file is added; without a collection it returns 0 and 0
\* and adds nothing
C27_ReloadCountsParseFailures ==
    [][ReloadStep =>
          IF ~mgr.collection
          THEN lastOp'.ret.val = [loaded |-> 0, errors |-> 0] /\ index' = index
          ELSE /\ lastOp'.ret.val.loaded = AddedNow
               /\ lastOp'.ret.val.errors = Cardinality(Unparseable(fs))
               /\ AddedNow = Cardinality(ReloadableRecords(fs))
    ]_vars

\* C27, amended: errors also counts the file in which a collection.add
\* threw, and the records of that file from the throwing call on are not
\* added; all other records of parseable files are, whatever failed before
C27_ReloadCounts ==
    [][ReloadStep =>
          IF ~mgr.collection
          THEN lastOp'.ret.val = [loaded |-> 0, errors |-> 0] /\ index' = index
          ELSE /\ lastOp'.ret.val.loaded = AddedNow
               /\ \A j \in (Len(index) + 1) .. Len(index') :
                     \E pi \in ReloadableRecords(fs) : index'[j].id = KeyOf(fs, pi)
               /\ IF AddThrew
                  THEN /\ lastOp'.ret.val.errors = Cardinality(Unparseable(fs)) + 1
                       /\ \E p \in ReloadFiles(fs) \ Unparseable(fs) :
                             \E k \in 1 .. Len(fs.files[p].recs) :
                                 AddedNow = Cardinality(ReloadableRecords(fs))
                                               - (Len(fs.files[p].recs) - k + 1)
                  ELSE /\ lastOp'.ret.val.errors = Cardinality(Unparseable(fs))
                       /\ AddedNow = Cardinality(ReloadableRecords(fs))
    ]_vars

\* a reload whose first file did not parse and which went on to add the
\* records of a later file
C27_Witness ==
    /\ lastOp.op = "reload"
    /\ Len(lastOp.args[1]) > 1
    /\ lastOp.args[1][1] \in Unparseable(fs)
    /\ lastOp.ret.val.errors >= 1
    /\ lastOp.ret.val.loaded >= 1

----------------------------------------------------------------------------
(* Deleting and the index *)

\* the vector-path answers that hold a record of session s
StillAnswered(s) ==
    {resp \in Answers(mgr, index, SearchWhere(ctx, env, s), DefaultLimit) :
        /\ resp.kind = "ok"
        /\ \E i \in DOMAIN resp.metadatas :
              Field(resp.metadatas[i], "sessionId") = s}

\* C28: deleteSession issues no vector-backend call: it leaves the index
\* as it was (so a vector-path search returns the records of a deleted
\* session as before)
C28_DeleteLeavesIndex ==
    [][lastOp'.op = "delete" =>
          /\ index' = index
          /\ lastOp'.queries = <<>>
          /\ lastOp'.events = <<>>
          /\ mgr' = mgr]_vars

\* a session file has been deleted, and a vector query for the session is
\* still answered with a record of it
C28_Witness ==
    /\ lastOp.op = "delete"
    /\ lastOp.ret.val = TRUE
    /\ StillAnswered(lastOp.args[1]) # {}
----------------------------------------------------------------------------
(* C29.  The results of the keyword fallback are the matching records in   *)
(* scan order (session files in the order of the directory listing,        *)
(* records in the order of the array), cut to the first `limit` of them:   *)
(* the i-th result is the result of the i-th matching record, and for      *)
(* every limit no more than `limit` results are returned (none when the    *)
(* limit is below zero).                                                   *)

\* the file names in the order the scan of the last search visits them
ScanOrder ==
    IF ~Falsy(lastOp.args[2]) THEN <<lastOp.args[2] \o JsonExt>> ELSE lastOp.args[4]

FilePos(pi) == CHOOSE k \in DOMAIN ScanOrder : ScanOrder[k] = pi[1][Len(pi[1])]

Before(pj, pi) ==
    \/ FilePos(pj) < FilePos(pi)
    \/ FilePos(pj) = FilePos(pi) /\ pj[2] < pi[2]

\* the position of a matching record among the matching records
Rank(pi) == Cardinality({pj \in MatchingRecords : Before(pj, pi)}) + 1

InScanOrder ==
    \A i \in DOMAIN lastOp.ret.val :
        \E pi \in MatchingRecords :
            Rank(pi) = i /\ lastOp.ret.val[i] = ResultOf(RecordAt(pi))

C29_FallbackOrderAndLimit ==
    (SearchOp /\ ~Available) =>
        /\ InScanOrder
        /\ Len(lastOp.ret.val) <= Max(SearchLimit, 0)

----------------------------------------------------------------------------
(* C30.  buildContextPrompt never raises and asks the search for at most 3 *)
(* results.  Without results it returns the empty string, and so it does   *)
(* when an error occurs inside it (a result it reaches has no metadata).   *)
(* Otherwise it returns the heading followed by the blocks of the first n  *)
(* results in the order returned, where result n + 1 is the first whose    *)
(* block would make the length exceed maxLength: every later block is      *)
(* left out, fitting or not.                                               *)

\* the results the search of the last prompt returned
PromptResults ==
    searchRelevantMemories(mgr, fs, ctx, env, lastOp.args[1], lastOp.args[2],
                           {PromptLimit}, lastOp.resp, lastOp.args[4]).ret.val

PromptMaxLength == Given(lastOp.args[3], DefaultMaxLength)

Block(memory) ==
    STR_BlockOpen \o Or(Field(memory.metadata, "sessionId"), STR_Session)
        \o <<"\n">> \o memory.content \o <<"\n", "\n">>

\* the heading and the blocks of the first n results
Emitted(n) == STR_Heading \o Concat([i \in 1..n |-> Block(PromptResults[i])])

Bare(i) == IsNull(PromptResults[i].metadata)

\* the first n results have metadata and their blocks fit one after another
Taken(n) == \A k \in 1..n : ~Bare(k) /\ Len(Emitted(k)) <= PromptMaxLength

\* the number of results whose blocks are emitted
Stop ==
    CHOOSE n \in 0..Len(PromptResults) :
        Taken(n) /\ (n < Len(PromptResults) => ~Taken(n + 1))

\* the loop reached a result without metadata
InternalError == Stop < Len(PromptResults) /\ Bare(Stop + 1)

C30_PromptIsPrefixOfBlocks ==
    lastOp.op = "prompt" =>
        /\ lastOp.ret.kind = "value"
        /\ Len(PromptResults) <= PromptLimit
        /\ \A k \in DOMAIN lastOp.queries : Len(lastOp.resp.documents) <= PromptLimit
        /\ lastOp.ret.val = IF Len(PromptResults) = 0 \/ InternalError THEN <<>>
                            ELSE Emitted(Stop)

\* the block of a result did not fit and ended the prompt, though the
\* block of a later result would have fitted
C30_Witness ==
    /\ lastOp.op = "prompt"
    /\ Stop < Len(PromptResults)
    /\ ~InternalError
    /\ lastOp.ret.val = Emitted(Stop)
    /\ \E j \in (Stop + 2)..Len(PromptResults) :
          Len(Emitted(Stop)) + Len(Block(PromptResults[j])) <= PromptMaxLength
----------------------------------------------------------------------------
(* C31.  The state of the existing session file never makes an append      *)
(* fail.  A store with JSON persistence on and a working disk, whose       *)
(* session file is missing, unparsable, or parsable but no JSON array,     *)
(* writes the file, and the file then holds the new record alone.          *)

NoSequenceIn(f, p) == p \notin DOMAIN f.files \/ f.files[p].kind # "array"

C31_AppendIgnoresFileState ==
    [][(C1_StoreStep /\ JsonEnabled /\ NoSequenceIn(fs, OwnerFile(lastOp'.args[1]))) =>
         /\ Happened(lastOp', "json", TRUE)
         /\ FileRecords(fs', OwnerFile(lastOp'.args[1]))
              = <<Persisted(lastOp'.args[1])>>
    ]_vars
----------------------------------------------------------------------------
(* C32.  The key of an entry of the vector index is sessionId, "_" and     *)
(* timestamp of the record it was made from, whether a store or a reload   *)
(* added it: the entry a store adds has the key of the stored record, the  *)
(* entries a reload adds have the keys of the records of the session       *)
(* files, and so two different records of one session and one timestamp    *)
(* have one key.  The session file has no key: a store into a file that    *)
(* holds a record of the same session and timestamp keeps both.            *)

Key(sessionId, timestamp) == sessionId \o <<"_">> \o NumStr(timestamp)

\* the session file holds a record of the key of memory
Collides(f, p, memory) ==
    \E i \in DOMAIN FileRecords(f, p) :
        /\ FileRecords(f, p)[i].sessionId = memory.sessionId
        /\ FileRecords(f, p)[i].timestamp = memory.timestamp

C32_KeyIsSessionAndTimestamp ==
    /\ [](\A i \in DOMAIN index :
             index[i].id = Key(index[i].metadata.sessionId,
                               index[i].metadata.timestamp))
    /\ [][C1_StoreStep =>
            LET memory == lastOp'.args[1]
                p == OwnerFile(memory)
            IN  /\ Happened(lastOp', "add", TRUE) =>
                      /\ Len(index') = Len(index) + 1
                      /\ index'[Len(index')].id
                           = Key(memory.sessionId, memory.timestamp)
                      /\ index'[Len(index')].document = Document(memory)
                /\ (Happened(lastOp', "json", TRUE) /\ Collides(fs, p, memory)) =>
                      /\ Len(FileRecords(fs', p)) = Len(FileRecords(fs, p)) + 1
                      /\ \A i \in DOMAIN FileRecords(fs, p) :
                            FileRecords(fs', p)[i] = FileRecords(fs, p)[i]
       ]_vars
    /\ [][lastOp'.op = "reload" =>
            \A j \in DOMAIN index' :
                j > Len(index) =>
                    \E q \in DOMAIN fs.files :
                        \E i \in DOMAIN FileRecords(fs, q) :
                            /\ index'[j].id = Key(FileRecords(fs, q)[i].sessionId,
                                                  FileRecords(fs, q)[i].timestamp)
                            /\ index'[j].document = Document(FileRecords(fs, q)[i])
       ]_vars

\* two different records of one session and one timestamp: two entries of
\* one session file, and two entries of the index under one key
C32_Witness ==
    /\ \E p \in DOMAIN fs.files :
          \E i, j \in DOMAIN FileRecords(fs, p) :
              /\ i # j
              /\ FileRecords(fs, p)[i] # FileRecords(fs, p)[j]
              /\ FileRecords(fs, p)[i].sessionId = FileRecords(fs, p)[j].sessionId
              /\ FileRecords(fs, p)[i].timestamp = FileRecords(fs, p)[j].timestamp
    /\ \E i, j \in DOMAIN index :
          /\ index[i].id = index[j].id
          /\ index[i].document # index[j].document
----------------------------------------------------------------------------
(* C33.  Records of the durable log are immutable.  Search, list, session  *)
(* summary, context prompt and bulk reload leave every session file as it  *)
(* is (and so does every operation but store and deleteSession); a store   *)
(* changes no file but the one session file of the record's owner, whose   *)
(* old records stay as they are, in place, before the new one; and a       *)
(* deleteSession takes away one whole session file or nothing.             *)

Untouched(q) == q \in DOMAIN fs'.files /\ fs'.files[q] = fs.files[q]

C33_RecordsImmutable ==
    [][/\ lastOp'.op \notin {"store", "delete"} => fs' = fs
       /\ lastOp'.op = "store" =>
             LET p == OwnerFile(lastOp'.args[1])
             IN  /\ \A q \in (DOMAIN fs.files) \ {p} : Untouched(q)
                 /\ DOMAIN fs'.files \subseteq (DOMAIN fs.files) \cup {p}
                 /\ fs' # fs => FileRecords(fs', p)
                                  = Append(FileRecords(fs, p),
                                           Persisted(lastOp'.args[1]))
       /\ lastOp'.op = "delete" =>
             \/ fs' = fs
             \/ \E p \in DOMAIN fs.files :
                   /\ DOMAIN fs'.files = (DOMAIN fs.files) \ {p}
                   /\ \A q \in DOMAIN fs'.files : Untouched(q)
    ]_vars

\* a store has put a second record behind the first of a session file, on
\* a disk that holds other files
C33_Witness ==
    /\ lastOp.op = "store"
    /\ LET recs == FileRecords(fs, OwnerFile(lastOp.args[1]))
       IN  /\ Len(recs) = 2
           /\ recs[1] # recs[2]
           /\ recs[2] = Persisted(lastOp.args[1])
    /\ \E q \in DOMAIN fs.files : q[1] # OwnerFile(lastOp.args[1])[1]
----------------------------------------------------------------------------
(* C34.  RequestContext holds one pair.  After set(userId, teamId) the     *)
(* getters return userId and teamId, or null in the place of an omitted,   *)
(* null or empty argument, whatever was held before; after clear both      *)
(* return null, whatever was held before: nothing earlier comes back.      *)

ReadBack(v) == IF v \in NoValues THEN Null ELSE v

C34_OnePairNoRestore ==
    /\ lastOp.op = "set" =>
          /\ lastOp.ret.val = <<ReadBack(lastOp.args[1]), ReadBack(lastOp.args[2])>>
          /\ ctx = [user |-> ReadBack(lastOp.args[1]),
                    team |-> ReadBack(lastOp.args[2])]
    /\ lastOp.op = "clear" =>
          /\ lastOp.ret.val = <<Null, Null>>
          /\ ctx = [user |-> Null, team |-> Null]

\* a clear after a set that replaced one identity by another: the getters
\* return null
C34_Witness ==
    /\ lastOp.op = "clear"
    /\ lastOp.args = <<U2, T2>>
    /\ lastOp.ret.val = <<Null, Null>>
----------------------------------------------------------------------------
(* C35.  listSessions does not raise and returns the names of the .json    *)
(* files of the active user's directory without the extension, and nothing *)
(* else; every session the active user has stored into, whose file is      *)
(* still there, is listed under its own id.                                *)

\* a file name without its extension
Stem(name) == SubSeq(name, 1, Len(name) - Len(JsonExt))

SessionFileNames(d) ==
    {p[Len(p)] : p \in {q \in DOMAIN fs.files :
                            /\ Len(q) = Len(d) + 1
                            /\ Parent(q) = d
                            /\ EndsWith(q[Len(q)], JsonExt)}}

ListedExactly ==
    Range(lastOp.ret.val) = {Stem(name) : name \in SessionFileNames(ActiveUserDir(ctx, env))}

StoredListed ==
    \A s \in SessionIds : StoredInto(fs, s) => s \in Range(lastOp.ret.val)

C35_ListsSessionFiles ==
    lastOp.op = "list" =>
        /\ lastOp.ret.kind = "value"
        /\ ListedExactly
        /\ StoredListed
----------------------------------------------------------------------------
(* C36.  Whatever the sessionId and the userId are, a store writes no file *)
(* but one inside the directory of the record's owner under the memory     *)
(* root, and every result of a fallback search is made from a record of a  *)
(* file inside the active user's directory under the memory root.          *)

\* the path, relative to the memory root, lies inside the directory `user`
\* directly under the root
InsideUserDir(q, user) ==
    /\ Len(q) >= 2
    /\ q[1] = user
    /\ \A i \in DOMAIN q : q[i] # DotDot

Written(q) == q \notin DOMAIN fs.files \/ fs'.files[q] # fs.files[q]

C36_NoPathEscape ==
    /\ [][C1_StoreStep =>
            \A q \in DOMAIN fs'.files :
                Written(q) => InsideUserDir(q, Sanitize(OwnerOf(lastOp'.args[1])))
       ]_vars
    /\ []((SearchOp /\ lastOp.path = "json") =>
            \A i \in DOMAIN lastOp.ret.val :
                \E q \in DOMAIN fs.files :
                    /\ InsideUserDir(q, ActiveUser)
                    /\ \E k \in DOMAIN FileRecords(fs, q) :
                          lastOp.ret.val[i] = ResultOf(FileRecords(fs, q)[k]))
----------------------------------------------------------------------------
(* C37.  Without a collection, getSessionSummary does not raise; for a     *)
(* session of which the active user's session file holds N >= 1 records    *)
(* it returns a summary with conversationCount N, the tags and the context *)
(* of the records, and their earliest and latest timestamps; and it        *)
(* returns null for no session but one that has no session file.           *)

SummaryRecords == FileRecords(fs, ActiveSessionFile(lastOp.args[1]))

Stamps == {SummaryRecords[i].timestamp : i \in DOMAIN SummaryRecords}

C37_JsonSummaryOfSession ==
    (lastOp.op = "summary" /\ ~mgr.collection) =>
        /\ lastOp.ret.kind = "value"
        /\ Len(SummaryRecords) >= 1 =>
              /\ lastOp.ret.val.kind = "json"
              /\ lastOp.ret.val.conversationCount = Len(SummaryRecords)
              /\ Range(lastOp.ret.val.tags)
                   = UNION {Range(SummaryRecords[i].tags) : i \in DOMAIN SummaryRecords}
              /\ Range(lastOp.ret.val.context)
                   = UNION {Range(SummaryRecords[i].context) : i \in DOMAIN SummaryRecords}
              /\ lastOp.ret.val.timeRange.earliest \in Stamps
              /\ lastOp.ret.val.timeRange.latest \in Stamps
              /\ \A t \in Stamps : /\ lastOp.ret.val.timeRange.earliest <= t
                                    /\ t <= lastOp.ret.val.timeRange.latest
        /\ lastOp.ret.val.kind = "null" =>
              ActiveSessionFile(lastOp.args[1]) \notin DOMAIN fs.files
====
